---- MODULE Spec2Model ----
(***************************************************************************)
(* Model of the ingestion pipeline of caryn-ops: parseCSV (the full-schema *)
(* CSV parser that groups members by agency) and mapRow (the row mapper of *)
(* the notification-only upload).                                          *)
(*                                                                         *)
(* Representation.  A JavaScript string is a sequence of one-character     *)
(* strings, so that trim, replace, parseFloat, parseInt and Number are     *)
(* computed character by character.  The JavaScript value undefined is the *)
(* sequence Undefined, which no text equals (its only element is not a     *)
(* single character).  A JavaScript number is a record [t, n]: t = "fin"   *)
(* with n the value in units of 10^-FracDigits, t = "inf" with n the sign, *)
(* t = "nan", or t = "undef" for an absent optional number.                *)
(***************************************************************************)
EXTENDS Integers, Sequences, FiniteSets, TLC

\* ------------------------------------------------------------------ bounds

\* Largest number of decoded data rows (results.data.length) explored.
MaxRows == 3

\* Largest number of raw rows of a file dropped on the upload component.
MaxRawRows == 2

\* Largest number of decodes of dropped files in flight at once.
MaxPending == 2

\* Fields of a header line.
MaxHeaders == 3

\* Items of a member_list.
MaxTargets == 3

\* Requests of a batch of sends.
MaxBatch == 3

\* Decimal digits kept behind the point in the fixed-point image of a number.
FracDigits == 2

Scale == 10 ^ FracDigits

\* ----------------------------------------------------------------- strings

Undefined == <<"undefined">>

Empty == <<>>

WhiteSpace == {" ", "\t"}

Digits == {"0", "1", "2", "3", "4", "5", "6", "7", "8", "9"}

DigitVal(c) ==
  CASE c = "0" -> 0 [] c = "1" -> 1 [] c = "2" -> 2 [] c = "3" -> 3
    [] c = "4" -> 4 [] c = "5" -> 5 [] c = "6" -> 6 [] c = "7" -> 7
    [] c = "8" -> 8 [] c = "9" -> 9

\* s without its first k characters.
Drop(s, k) == IF k >= Len(s) THEN <<>> ELSE SubSeq(s, k + 1, Len(s))

RECURSIVE TrimStart(_)
TrimStart(s) ==
  IF s # <<>> /\ Head(s) \in WhiteSpace THEN TrimStart(Tail(s)) ELSE s

RECURSIVE TrimEnd(_)
TrimEnd(s) ==
  IF s # <<>> /\ s[Len(s)] \in WhiteSpace
  THEN TrimEnd(SubSeq(s, 1, Len(s) - 1))
  ELSE s

\* String.prototype.trim
Trim(s) == TrimEnd(TrimStart(s))

\* value?.trim(): undefined stays undefined.
OptTrim(v) == IF v = Undefined THEN Undefined ELSE Trim(v)

\* JavaScript truthiness of a string-or-undefined value.
Truthy(v) == v # Undefined /\ v # Empty

\* value?.trim() || undefined
OptField(v) == IF Truthy(OptTrim(v)) THEN OptTrim(v) ELSE Undefined

\* amountStr.replace(/[$,]/g, '')
StripCurrency(s) == SelectSeq(s, LAMBDA c : c \notin {"$", ","})

\* ----------------------------------------------------------------- numbers

NaN == [t |-> "nan", n |-> 0]

Infinity(sign) == [t |-> "inf", n |-> sign]

Fin(n) == [t |-> "fin", n |-> n]

UndefNum == [t |-> "undef", n |-> 0]

\* isNaN(x); isNaN(undefined) is true.
IsNaN(x) == x.t \in {"nan", "undef"}

\* x < 0 (false for NaN and undefined)
LessThanZero(x) == x.t \in {"fin", "inf"} /\ x.n < 0

IsFinite(x) == x.t = "fin"

\* Number of leading decimal digits of s.
RECURSIVE DigitRun(_)
DigitRun(s) ==
  IF s # <<>> /\ Head(s) \in Digits THEN 1 + DigitRun(Tail(s)) ELSE 0

\* Value of a sequence of decimal digits (0 for the empty sequence).
RECURSIVE DigitsValue(_)
DigitsValue(s) ==
  IF s = <<>> THEN 0
  ELSE 10 * DigitsValue(SubSeq(s, 1, Len(s) - 1)) + DigitVal(s[Len(s)])

StartsWith(s, p) == Len(s) >= Len(p) /\ SubSeq(s, 1, Len(p)) = p

InfinityText == <<"I", "n", "f", "i", "n", "i", "t", "y">>

\* Length and value of an optional leading sign.
SignLen(s) == IF s # <<>> /\ Head(s) \in {"+", "-"} THEN 1 ELSE 0

SignOf(s) == IF s # <<>> /\ Head(s) = "-" THEN -1 ELSE 1

\* Length of the fraction part "." digits at the head of s, given that intLen
\* digits precede it: "5." is a literal, "." alone is not.
DotLen(s, intLen) ==
  IF s # <<>> /\ Head(s) = "." /\ (intLen > 0 \/ DigitRun(Tail(s)) > 0)
  THEN 1 + DigitRun(Tail(s))
  ELSE 0

\* Length of the exponent part e [sign] digits at the head of s (0 if none).
ExpLen(s) ==
  IF s # <<>> /\ Head(s) \in {"e", "E"}
       /\ DigitRun(Drop(Tail(s), SignLen(Tail(s)))) > 0
  THEN 1 + SignLen(Tail(s)) + DigitRun(Drop(Tail(s), SignLen(Tail(s))))
  ELSE 0

\* Value of the exponent part of length len > 0 at the head of s.
ExpValue(s, len) ==
  SignOf(Tail(s)) * DigitsValue(SubSeq(s, 2 + SignLen(Tail(s)), len))

\* mant * 10^shift in units of 10^-FracDigits.
Scaled(mant, shift) ==
  IF shift + FracDigits >= 0
  THEN mant * (10 ^ (shift + FracDigits))
  ELSE mant \div (10 ^ (0 - (shift + FracDigits)))

\* The unsigned literal digits [. digits] [e [sign] digits] at the head of
\* body, which starts with intLen digits followed by a fraction part of dotLen
\* characters.
ScanUnsigned(body, intLen, dotLen) ==
  LET expLen == ExpLen(Drop(body, intLen + dotLen))
      expo   == IF expLen > 0 THEN ExpValue(Drop(body, intLen + dotLen), expLen)
                ELSE 0
      fracN  == IF dotLen > 0 THEN dotLen - 1 ELSE 0
      mant   == DigitsValue(SubSeq(body, 1, intLen)
                            \o SubSeq(body, intLen + 2, intLen + 1 + fracN))
  IN  [mag |-> Scaled(mant, expo - fracN), used |-> intLen + dotLen + expLen]

\* The longest prefix of s that is a StrDecimalLiteral (ECMA-262 7.1.4.1):
\* [sign] ( Infinity | digits [. digits] | . digits ) [ e [sign] digits ].
\* Result: val, the number denoted (NaN when no prefix is a literal), and
\* used, the length of that prefix.
ScanDecimal(s) ==
  LET body   == Drop(s, SignLen(s))
      intLen == DigitRun(body)
      dotLen == DotLen(Drop(body, intLen), intLen)
  IN  IF StartsWith(body, InfinityText)
      THEN [val |-> Infinity(SignOf(s)), used |-> SignLen(s) + Len(InfinityText)]
      ELSE IF intLen = 0 /\ dotLen = 0
      THEN [val |-> NaN, used |-> 0]
      ELSE [val |-> Fin(SignOf(s) * ScanUnsigned(body, intLen, dotLen).mag),
            used |-> SignLen(s) + ScanUnsigned(body, intLen, dotLen).used]

\* parseFloat(s): leading white space skipped, then the longest literal prefix.
ParseFloat(s) == ScanDecimal(TrimStart(s)).val

\* parseInt(s, 10): leading white space skipped, optional sign, then the
\* longest run of decimal digits; NaN when there is none.
ParseInt10(s) ==
  LET body == Drop(TrimStart(s), SignLen(TrimStart(s)))
  IN  IF DigitRun(body) = 0 THEN NaN
      ELSE Fin(SignOf(TrimStart(s))
               * DigitsValue(SubSeq(body, 1, DigitRun(body))) * Scale)

\* Number(v) for a string or undefined: undefined is NaN, white space only
\* is 0, otherwise the whole trimmed text must be one decimal literal.
ToNumber(v) ==
  IF v = Undefined THEN NaN
  ELSE LET t == Trim(v)
           r == ScanDecimal(t)
       IN  IF t = <<>> THEN Fin(0)
           ELSE IF r.used = Len(t) THEN r.val ELSE NaN

\* ------------------------------------------------------------------ inputs

T_John == <<"J", "o", "h", "n">>

T_100 == <<"1", "0", "0">>

T_ABC == <<"A", "B", "C">>

T_abcPadded == <<" ", "a", "b", "c", " ">>

T_ABCPadded == <<" ", "A", "B", "C", " ">>

T_constructor == <<"c", "o", "n", "s", "t", "r", "u", "c", "t", "o", "r">>

T_EmailA == <<"a", "@", "x", ".", "c", "o">>

T_EmailB == <<"b", "@", "x", ".", "c", "o">>

T_EmailBPadded == <<" ", "b", "@", "x", ".", "c", "o", " ">>

T_Blank == <<" ", " ">>

\* A text that is no address, as a sheet carries it for an unknown one.
T_NotAnAddress == <<"n", "/", "a">>

\* A row of results.data as PapaParse (header: true) delivers it: each known
\* column is a text, or undefined when the line has no such field.
BaseRow ==
  [MemberName |-> T_John, Amount |-> T_100, Agency |-> T_ABC,
   AgencyEmail |-> Undefined, DaysLate |-> Undefined, MemberID |-> Undefined,
   Phone |-> Undefined, Email |-> Undefined]

\* Rows of two agencies, with and without an email: the first has a formatted
\* amount, the third has its agency padded, an empty email and the
\* pass-through columns filled.
RowsByAgency ==
  { [BaseRow EXCEPT !.AgencyEmail = T_EmailA,
                    !.Amount = <<"$", "1", ",", "2", "5", "0", ".", "5", "0">>,
                    !.DaysLate = <<"3", "0">>],
    [BaseRow EXCEPT !.AgencyEmail = T_EmailBPadded, !.Amount = <<"0">>],
    [BaseRow EXCEPT !.Agency = T_abcPadded, !.AgencyEmail = Empty,
                    !.DaysLate = <<" ", "7", " ">>, !.MemberID = <<"M", "1">>,
                    !.Phone = T_Blank, !.Email = <<" ", "j", "@", "y">>] }

\* Rows whose agency name is a key that every plain object inherits.
RowsInheritedKey ==
  { [BaseRow EXCEPT !.Agency = T_constructor],
    [BaseRow EXCEPT !.Agency = T_constructor, !.AgencyEmail = T_EmailA] }

AmountTexts ==
  { <<"-", "5">>, <<"a", "b", "c">>, <<"1", "2", "a", "b", "c">>, InfinityText }

DaysLateTexts == { <<"-", "1">>, <<"3", ".", "5">>, <<"x">> }

RowsByAmount == { [BaseRow EXCEPT !.Amount = t] : t \in AmountTexts }

RowsByDaysLate == { [BaseRow EXCEPT !.DaysLate = t] : t \in DaysLateTexts }

RowsIncomplete ==
  { [BaseRow EXCEPT !.Agency = Undefined],
    [BaseRow EXCEPT !.MemberName = T_Blank, !.Amount = T_Blank,
                    !.Agency = T_Blank, !.AgencyEmail = T_Blank] }

RowsByEmail == { [BaseRow EXCEPT !.AgencyEmail = T_NotAnAddress] }

\* An agency value that differs from BaseRow's only in surrounding white
\* space, and from T_abcPadded only in letter case.
RowsByPadding == { [BaseRow EXCEPT !.Agency = T_ABCPadded] }

Rows ==
  {BaseRow} \cup RowsByAgency \cup RowsInheritedKey \cup RowsByAmount
    \cup RowsByDaysLate \cup RowsIncomplete \cup RowsByEmail \cup RowsByPadding

\* Keys a lookup on a plain object literal finds on Object.prototype.
InheritedKeys == {T_constructor}

\* results.errors of PapaParse for a file of n data rows: none, an error
\* without a row (UndetectableDelimiter), or a FieldMismatch on the last row
\* (PapaParse numbers data rows from 0).
PapaError(code, hasRow, row) == [code |-> code, hasRow |-> hasRow, papaRow |-> row]

PapaErrorLists(n) ==
  { <<>>, << PapaError("UndetectableDelimiter", FALSE, 0) >> }
    \cup (IF n > 0 THEN { << PapaError("TooFewFields", TRUE, n - 1) >> } ELSE {})

\* ------------------------------------------- inputs of the upload component

COL_AGENCY_EMAIL == "Agency Email Address"

COL_FIRST_NAME == "memberFirstName"

COL_LAST_NAME == "memberLastName"

COL_DELINQUENT == "delinquent_days"

REQUIRED_COLUMNS == <<COL_AGENCY_EMAIL, COL_FIRST_NAME, COL_LAST_NAME, COL_DELINQUENT>>

\* A raw row of the notification-only file: column -> text, undefined for a
\* column the row object has no key for.
RawRow(email, first, last, days) ==
  [c \in {COL_AGENCY_EMAIL, COL_FIRST_NAME, COL_LAST_NAME, COL_DELINQUENT} |->
     CASE c = COL_AGENCY_EMAIL -> email
       [] c = COL_FIRST_NAME -> first
       [] c = COL_LAST_NAME -> last
       [] c = COL_DELINQUENT -> days]

T_Ann == <<"A", "n", "n">>

T_Lee == <<"L", "e", "e">>

T_45 == <<"4", "5">>

RawRows ==
  { RawRow(T_EmailA, T_Ann, T_Lee, T_45),
    RawRow(T_EmailBPadded, T_Ann, Empty, Empty),
    RawRow(T_EmailA, T_Ann, T_Lee, <<"-", "5">>),
    RawRow(T_EmailA, T_Ann, T_Lee, <<"3", ".", "5">>),
    RawRow(T_EmailA, T_Ann, T_Lee, <<"x">>),
    RawRow(Empty, T_Blank, T_Lee, T_45),
    RawRow(T_EmailA, T_Ann, Undefined, Undefined),
    RawRow(T_NotAnAddress, T_Ann, T_Lee, T_45) }

\* The files a decoder can resolve with: every sequence of at most MaxRawRows
\* raw rows, the empty one included.
RECURSIVE SeqsUpTo(_, _)
SeqsUpTo(S, n) ==
  IF n = 0 THEN { <<>> }
  ELSE SeqsUpTo(S, n - 1)
         \cup { Append(q, x) : q \in { r \in SeqsUpTo(S, n - 1) : Len(r) = n - 1 }, x \in S }

RawFiles == SeqsUpTo(RawRows, MaxRawRows)

\* The files dropped in a run that goes on to send: rows mapRow accepts, the
\* last one with a negative delinquent_days.
SendRawRows ==
  { RawRow(T_EmailA, T_Ann, T_Lee, T_45),
    RawRow(T_EmailBPadded, T_Ann, Empty, Empty),
    RawRow(T_EmailA, T_Ann, T_Lee, <<"-", "5">>) }

SendRawFiles == SeqsUpTo(SendRawRows, MaxRawRows)

FileNames ==
  { <<"m", ".", "c", "s", "v">>, <<"m", ".", "X", "L", "S">>,
    <<"m", ".", "c", "s", "v", ".", "t", "x", "t">> }

\* ------------------------------- inputs of the full-schema upload component

T_MemberName == <<"M", "e", "m", "b", "e", "r", " ", "N", "a", "m", "e">>

T_Amount == <<"A", "m", "o", "u", "n", "t">>

T_Agency == <<"A", "g", "e", "n", "c", "y">>

\* Header texts as a file's first line declares them: the required ones, one
\* padded, one in another letter case, and an optional column.
HeaderTexts ==
  { T_MemberName, T_Amount, T_Agency, <<" ">> \o T_Agency \o <<" ">>,
    <<"a", "m", "o", "u", "n", "t">>, <<"D", "a", "y", "s", " ", "L", "a", "t", "e">> }

\* A file of the full-schema variant, as far as validateCSVHeaders reads it:
\* its header line, at most MaxHeaders fields.
HeaderLines == SeqsUpTo(HeaderTexts, MaxHeaders)

\* ------------------------------------------------ inputs of the dispatchers

\* A value of a JSON body as the handlers test it: typeof and the value.
JString(s) == [t |-> "string", s |-> s, n |-> 0]

JNumber(n) == [t |-> "number", s |-> <<>>, n |-> n]

JUndefined == [t |-> "undefined", s |-> <<>>, n |-> 0]

\* A member of a request to the per-member dispatcher.
Member(name, days, email, amount) ==
  [name |-> name, delinquent_days |-> days, agency_email |-> email,
   amount_due |-> amount]

M_Ann == Member(JString(T_Ann), JNumber(45), JString(T_EmailA), JUndefined)

M_Lee == Member(JString(T_Lee), JNumber(0), JString(T_EmailB), JNumber(100))

\* Members the per-member dispatcher accepts: the last has a negative amount,
\* a field this dispatcher does not look at.
GoodMembers ==
  { M_Ann, M_Lee, [M_Ann EXCEPT !.amount_due = JNumber(-5)] }

\* Members with one field the dispatcher rejects, and one with two.
BadMembers ==
  { [M_Ann EXCEPT !.name = JUndefined],
    [M_Ann EXCEPT !.name = JNumber(5)],
    [M_Ann EXCEPT !.delinquent_days = JNumber(-5)],
    [M_Ann EXCEPT !.delinquent_days = JString(T_45)],
    [M_Ann EXCEPT !.agency_email = JString(T_NotAnAddress)],
    [M_Ann EXCEPT !.agency_email = JUndefined],
    [M_Ann EXCEPT !.name = JString(Empty), !.agency_email = JString(T_NotAnAddress)] }

\* member_list of a body: absent, not an array, or an array of members of at
\* most MaxTargets items.
MemberLists ==
  { [isArray |-> FALSE, items |-> <<>>] }
    \cup { [isArray |-> TRUE, items |-> l] :
             l \in SeqsUpTo(GoodMembers \cup BadMembers, MaxTargets) }

ReplyTos == { JString(T_EmailB), JString(T_NotAnAddress), JUndefined }

\* A request as the per-member handler sees it: whether RESEND_API_KEY is set
\* in its environment, and the two fields of the body.
EmailRequests ==
  { [apiKey |-> k, member_list |-> l, reply_to |-> r] :
      k \in BOOLEAN, l \in MemberLists, r \in ReplyTos }

\* A member of a request to the per-agency dispatcher.
AgencyMember(name, amount, days) ==
  [name |-> name, amount_due |-> amount, days_late |-> days]

A_Ann == AgencyMember(JString(T_Ann), JNumber(100), JUndefined)

\* Members the per-agency dispatcher accepts (the last has a negative
\* days_late, a field it does not look at), and members it rejects.
AgencyMembers ==
  { A_Ann,
    AgencyMember(JString(T_Lee), JNumber(0), JNumber(45)),
    [A_Ann EXCEPT !.days_late = JNumber(-5)],
    [A_Ann EXCEPT !.name = JUndefined],
    [A_Ann EXCEPT !.amount_due = JNumber(-5)],
    [A_Ann EXCEPT !.amount_due = JString(T_100)],
    [A_Ann EXCEPT !.amount_due = JUndefined] }

AgencyMemberLists ==
  { [isArray |-> FALSE, items |-> <<>>] }
    \cup { [isArray |-> TRUE, items |-> l] : l \in SeqsUpTo(AgencyMembers, MaxTargets) }

\* A request as the per-agency handler sees it.
AgencyRequests ==
  { [apiKey |-> k, agent_email |-> a, member_list |-> l, reply_to |-> r] :
      k \in BOOLEAN, a \in ReplyTos, l \in AgencyMemberLists, r \in ReplyTos }

\* What one transport call does: the response is ok, the response is not ok,
\* or fetch (or reading the response body) throws.
TransportOutcomes == {"ok", "notOk", "throws"}

\* ------------------------------------------- inputs of the batch of sends

\* Requests of a batch, told apart by their agent_email.
BatchRequests == { [agent_email |-> T_EmailA], [agent_email |-> T_EmailB] }

\* The arrays sendBatchEmailsToAgencies is called with.
RequestArrays == SeqsUpTo(BatchRequests, MaxBatch)

\* The message of the reason a send rejects with: an Error's message, or none.
ReasonMessages == { "Failed to send email", "" }

\* The value null of a state cell of the component.
Null == <<"null">>

\* ------------------------------------------------------------------- state

VARIABLES
  pc,            \* parseCSV: "parsing" (the row loop of complete()), "done"
                 \* (resolved), "rejected" (the error callback rejected);
                 \* "upload" in a run of the upload component
  nRows,         \* results.data.length
  rows,          \* results.data[0 .. index-1], the rows the loop has visited
  agencyMap,     \* own properties of agencyMap: agency name -> group
  errors,        \* the errors array
  totalMembers,  \* the totalMembers counter
  objProps,      \* properties the loop has set on an inherited object
  resolved,      \* <<>>, or << the CSVParseResult the promise resolved with >>
  fileName,      \* upload component: useState cells
  members,
  parseError,    \* <<>> for null, or << the error >>
  missingCols,
  skippedRows,
  pending,       \* decodes awaited by onDrop calls: << [name, decoder] >>
  uploadedFile,  \* full-schema component: <<>> for null, or << header line >>
  uploading,
  uploadStatus,
  errorMessage,  \* <<>> for '', or << the message >>
  parseResult,   \* <<>> for null, or << the CSVParseResult >>
  awaiting,      \* what the running onDrop call awaits: "none",
                 \* "validateCSVHeaders" or "parseCSV"
  validation,    \* <<>>, or << what validateCSVHeaders resolved with >>
  calls,         \* calls made for the dropped file, in order: "parseCSV",
                 \* "onUploadComplete", "onUploadError"
  request,       \* per-member dispatcher: <<>>, or << the request served >>
  results,       \* the results array
  sendErrors,    \* the errors array of the handler
  fetches,       \* the transport calls made, in order: index into member_list
                 \* (per-agency dispatcher: the message and the outcome)
  response,      \* <<>>, or << the Response returned >>
  requests,      \* sendBatchEmailsToAgencies: <<>>, or << its argument >>
  sends,         \* the promise of each sendBatchEmail(request), by index
  settleLog,     \* the indices of the sends in the order they settled
  returned,      \* <<>>, or << the array the function resolved with >>
  stats,         \* <<>>, or << what calculateStatistics(result.data) returned >>
  sending,       \* upload component: useState cells of the send
  batchResult,   \* <<>> for null, or << the BatchResponse >>
  sendError,     \* <<>> for null, or << the message >>
  invoking,      \* <<>>, or << the member_list of the invocation awaited >>
  answered       \* <<>>, or << the response of the function to the last
                 \* invocation that reached it >>

parseVars == <<nRows, rows, agencyMap, errors, totalMembers, objProps, resolved>>

uploadVars == <<fileName, members, parseError, missingCols, skippedRows, pending>>

csvVars == <<uploadedFile, uploading, uploadStatus, errorMessage, parseResult,
             awaiting, validation, calls>>

\* What the runs of parseCSV and of the notification-only component leave alone.
dispatchVars == <<request, results, sendErrors, fetches, response>>

batchVars == <<requests, sends, settleLog, returned>>

otherVars == <<csvVars, dispatchVars, batchVars>>

statVars == <<stats>>

sendVars == <<sending, batchResult, sendError, invoking, answered>>

vars == <<pc, parseVars, uploadVars, otherVars, statVars, sendVars>>

\* ------------------------------------------------------- parseCSV: one row

\* The loop's mutable state as one record, threaded through the row step.
LoopState == [agencyMap |-> agencyMap, errors |-> errors,
              totalMembers |-> totalMembers, objProps |-> objProps]

\* Mutant: the header line is not counted.
RowNumber_NoHeader(index) == index + 1

\* index + 2: the header line and the 0-based index.
RowNumber(index) == index + 2

MsgMissing == [kind |-> "Missing required fields (Member Name, Amount, or Agency)",
               text |-> Empty]

MsgInvalidAmount(amountStr) == [kind |-> "Invalid amount: ", text |-> amountStr]

MsgInvalidDaysLate(daysLateStr) == [kind |-> "Invalid days late: ", text |-> daysLateStr]

\* error.message of the TypeError thrown by undefined.push
MsgTypeError == [kind |-> "Cannot read properties of undefined (reading 'push')",
                 text |-> Empty]

\* errors.push({ row: index + 2, message, data: row }); return;
Reject(st, index, message, row) ==
  [st EXCEPT !.errors =
     Append(@, [row |-> RowNumber(index), message |-> message, data |-> row])]

\* !memberName || !amountStr || !agencyName
MissingRequired(memberName, amountStr, agencyName) ==
  ~Truthy(memberName) \/ ~Truthy(amountStr) \/ ~Truthy(agencyName)

\* isNaN(amountDue) || amountDue < 0
InvalidAmount(amountDue) == IsNaN(amountDue) \/ LessThanZero(amountDue)

\* daysLateStr ? parseInt(daysLateStr, 10) : undefined
DaysLateOf(daysLateStr) ==
  IF Truthy(daysLateStr) THEN ParseInt10(daysLateStr) ELSE UndefNum

\* daysLateStr && (isNaN(daysLate) || daysLate < 0)
InvalidDaysLate(daysLateStr, daysLate) ==
  Truthy(daysLateStr) /\ (IsNaN(daysLate) \/ LessThanZero(daysLate))

\* agencyMap[agencyName] is truthy: an own group, or a member of Object.prototype.
HasEntry(map, agencyName) ==
  agencyName \in DOMAIN map \/ agencyName \in InheritedKeys

NewGroup(agencyName, agencyEmail) ==
  [agency_name |-> agencyName, agency_email |-> agencyEmail,
   needs_lookup |-> ~Truthy(agencyEmail), members |-> <<>>]

\* Mutant: the email is filled in, the flag is left as it was.
FillEmail_KeepsFlag(entry, agencyEmail) ==
  IF Truthy(agencyEmail) /\ ~Truthy(entry.agency_email)
  THEN [entry EXCEPT !.agency_email = agencyEmail]
  ELSE entry

\* Mutant: last-wins, a later row's email overwrites the group's.
FillEmail_LastWins(entry, agencyEmail) ==
  IF Truthy(agencyEmail)
  THEN [entry EXCEPT !.agency_email = agencyEmail, !.needs_lookup = FALSE]
  ELSE entry

\* Mutant: first-seen-wins, the group keeps what its first row gave it.
FillEmail_FirstSeen(entry, agencyEmail) == entry

\* The update of an existing entry's email: only when the row has one and the
\* entry has none.
FillEmail(entry, agencyEmail) ==
  IF Truthy(agencyEmail) /\ ~Truthy(entry.agency_email)
  THEN [entry EXCEPT !.agency_email = agencyEmail, !.needs_lookup = FALSE]
  ELSE entry

\* The same two assignments on an inherited object (a function such as
\* Object), which has neither property until they are made.
FillInherited(props, agencyEmail) ==
  IF Truthy(agencyEmail) /\ ~Truthy(props.agency_email)
  THEN [agency_email |-> agencyEmail, needs_lookup |-> "false"]
  ELSE props

\* if (!agencyMap[agencyName]) { create } else { fill in the email }
UpsertGroup(st, agencyName, agencyEmail) ==
  IF ~HasEntry(st.agencyMap, agencyName)
  THEN [st EXCEPT !.agencyMap =
          [k \in DOMAIN @ \cup {agencyName} |->
             IF k = agencyName THEN NewGroup(agencyName, agencyEmail) ELSE @[k]]]
  ELSE IF agencyName \in DOMAIN st.agencyMap
  THEN [st EXCEPT !.agencyMap[agencyName] = FillEmail(@, agencyEmail)]
  ELSE [st EXCEPT !.objProps[agencyName] = FillInherited(@, agencyEmail)]

\* agencyMap[agencyName].members is an array (only an own group has one).
HasMembers(map, agencyName) == agencyName \in DOMAIN map

\* Mutant: the member is put in front of the group's members.
AddMember_Unshift(st, agencyName, member) ==
  [st EXCEPT !.agencyMap[agencyName].members = <<member>> \o @,
             !.totalMembers = @ + 1]

\* Mutant: the member is pushed, the counter is not incremented.
AddMember_NoCount(st, agencyName, member) ==
  [st EXCEPT !.agencyMap[agencyName].members = Append(@, member)]

\* agencyMap[agencyName].members.push(member); totalMembers++;
AddMember(st, agencyName, member) ==
  [st EXCEPT !.agencyMap[agencyName].members = Append(@, member),
             !.totalMembers = @ + 1]

\* Mutant: the member carries the agency value as the file has it, untrimmed.
MemberOf_RawAgency(row) ==
  [name |-> OptTrim(row.MemberName),
   amount_due |-> ParseFloat(StripCurrency(OptTrim(row.Amount))),
   agency_name |-> row.Agency,
   agency_email |-> OptField(row.AgencyEmail),
   days_late |-> DaysLateOf(OptTrim(row.DaysLate)),
   member_id |-> OptField(row.MemberID),
   phone |-> OptField(row.Phone),
   email |-> OptField(row.Email)]

\* The member object literal.
MemberOf(row) ==
  [name |-> OptTrim(row.MemberName),
   amount_due |-> ParseFloat(StripCurrency(OptTrim(row.Amount))),
   agency_name |-> OptTrim(row.Agency),
   agency_email |-> OptField(row.AgencyEmail),
   days_late |-> DaysLateOf(OptTrim(row.DaysLate)),
   member_id |-> OptField(row.MemberID),
   phone |-> OptField(row.Phone),
   email |-> OptField(row.Email)]

\* From the member literal to the end of the try block; the catch clause turns
\* the TypeError of undefined.push into an error entry, keeping what the block
\* had assigned before it threw.
StoreMember(st, row, index) ==
  LET member == MemberOf(row)
      st1    == UpsertGroup(st, member.agency_name, member.agency_email)
  IN  IF HasMembers(st1.agencyMap, member.agency_name)
      THEN AddMember(st1, member.agency_name, member)
      ELSE Reject(st1, index, MsgTypeError, row)

\* The body of results.data.forEach((row, index) => { ... }).
ProcessRow(st, row, index) ==
  LET memberName  == OptTrim(row.MemberName)
      amountStr   == OptTrim(row.Amount)
      agencyName  == OptTrim(row.Agency)
      daysLateStr == OptTrim(row.DaysLate)
  IN  IF MissingRequired(memberName, amountStr, agencyName)
      THEN Reject(st, index, MsgMissing, row)
      ELSE IF InvalidAmount(ParseFloat(StripCurrency(amountStr)))
      THEN Reject(st, index, MsgInvalidAmount(amountStr), row)
      ELSE IF InvalidDaysLate(daysLateStr, DaysLateOf(daysLateStr))
      THEN Reject(st, index, MsgInvalidDaysLate(daysLateStr), row)
      ELSE StoreMember(st, row, index)

\* results.errors.forEach(error => errors.push({ row: error.row ?? -1, ... }))
PapaRow(error) == IF error.hasRow THEN error.papaRow ELSE -1

PapaEntry(error) ==
  [row |-> PapaRow(error), message |-> [kind |-> error.code, text |-> Empty],
   data |-> error]

RECURSIVE PushPapaErrors(_, _)
PushPapaErrors(errs, papaErrors) ==
  IF papaErrors = <<>> THEN errs
  ELSE PushPapaErrors(Append(errs, PapaEntry(Head(papaErrors))), Tail(papaErrors))

\* Mutant: the loop stops at the first rejected row.
LoopDone_StopsAtError(index, n) == index = n \/ errors # <<>>

\* forEach has visited every element of results.data.
LoopDone(index, n) == index = n

\* ------------------------------------------------- upload component: rows

\* String(row[col] ?? '').trim()
CellText(row, col) == IF row[col] = Undefined THEN Empty ELSE Trim(row[col])

\* last ? `${first} ${last}` : first
FullName(first, last) == IF Truthy(last) THEN first \o <<" ">> \o last ELSE first

\* !first || !email || isNaN(days)
Unmappable(first, email, days) == ~Truthy(first) \/ ~Truthy(email) \/ IsNaN(days)

\* mapRow(row): << >> for null, << member >> otherwise.
MapRow(row) ==
  IF Unmappable(CellText(row, COL_FIRST_NAME), CellText(row, COL_AGENCY_EMAIL),
                ToNumber(row[COL_DELINQUENT]))
  THEN <<>>
  ELSE << [name |-> FullName(CellText(row, COL_FIRST_NAME),
                             CellText(row, COL_LAST_NAME)),
           delinquent_days |-> ToNumber(row[COL_DELINQUENT]),
           agency_email |-> CellText(row, COL_AGENCY_EMAIL)] >>

\* for (const row of rawRows) { mapped.push(member) or skipped++ }
RECURSIVE MapRows(_)
MapRows(rawRows) ==
  IF rawRows = <<>> THEN [mapped |-> <<>>, skipped |-> 0]
  ELSE LET rest == MapRows(Tail(rawRows))
       IN  IF MapRow(Head(rawRows)) = <<>>
           THEN [mapped |-> rest.mapped, skipped |-> rest.skipped + 1]
           ELSE [mapped |-> MapRow(Head(rawRows)) \o rest.mapped,
                 skipped |-> rest.skipped]

\* Object.keys(rawRows[0])
HeadersOf(row) == { c \in DOMAIN row : row[c] # Undefined }

\* REQUIRED_COLUMNS.filter(col => !headers.includes(col))
MissingColumns(headers) == SelectSeq(REQUIRED_COLUMNS, LAMBDA c : c \notin headers)

UpperCase == <<"A", "B", "C", "D", "E", "F", "G", "H", "I", "J", "K", "L", "M",
               "N", "O", "P", "Q", "R", "S", "T", "U", "V", "W", "X", "Y", "Z">>

LowerCase == <<"a", "b", "c", "d", "e", "f", "g", "h", "i", "j", "k", "l", "m",
               "n", "o", "p", "q", "r", "s", "t", "u", "v", "w", "x", "y", "z">>

LowerChar(c) ==
  IF \E i \in 1 .. Len(UpperCase) : UpperCase[i] = c
  THEN LowerCase[CHOOSE i \in 1 .. Len(UpperCase) : UpperCase[i] = c]
  ELSE c

ToLowerCase(s) == [i \in 1 .. Len(s) |-> LowerChar(s[i])]

\* name.split('.').pop(): what follows the last '.', the whole name if none.
RECURSIVE LastSegment(_)
LastSegment(name) ==
  IF \E i \in 1 .. Len(name) : name[i] = "."
  THEN LastSegment(Drop(name, CHOOSE i \in 1 .. Len(name) : name[i] = "."
                                    /\ \A j \in 1 .. i - 1 : name[j] # "."))
  ELSE name

\* file.name.split('.').pop()?.toLowerCase()
ExtensionOf(name) == ToLowerCase(LastSegment(name))

\* A variant that hands every extension other than xlsx and xls to the CSV
\* decoder.
DecoderFor_CsvDefault(ext) ==
  IF ext = <<"x", "l", "s", "x">> \/ ext = <<"x", "l", "s">> THEN "excel" ELSE "csv"

\* The decoder onDrop awaits for the extension, "none" when it throws instead.
DecoderFor(ext) ==
  IF ext = <<"c", "s", "v">> THEN "csv"
  ELSE IF ext = <<"x", "l", "s", "x">> \/ ext = <<"x", "l", "s">> THEN "excel"
  ELSE "none"

ErrUnsupported == [kind |-> "Unsupported file type. Please upload .csv or .xlsx",
                   cols |-> <<>>]

ErrNoRows == [kind |-> "File is empty or contains no data rows", cols |-> <<>>]

ErrMissingColumns(missing) == [kind |-> "Missing required columns: ", cols |-> missing]

ErrNoValidRows == [kind |-> "No valid member rows found after parsing", cols |-> <<>>]

\* err.message of a decoder's rejection
ErrDecode == [kind |-> "Failed to read file", cols |-> <<>>]

\* ----------------------------------------------------------------- actions

UploadIdle ==
  /\ fileName = Null
  /\ members = <<>>
  /\ parseError = <<>>
  /\ missingCols = <<>>
  /\ skippedRows = 0
  /\ pending = <<>>

ParseIdle ==
  /\ nRows = 0
  /\ rows = <<>>
  /\ agencyMap = <<>>
  /\ errors = <<>>
  /\ totalMembers = 0
  /\ objProps = [k \in InheritedKeys |->
                   [agency_email |-> Undefined, needs_lookup |-> "undefined"]]
  /\ resolved = <<>>

CsvIdle ==
  /\ uploadedFile = <<>>
  /\ uploading = FALSE
  /\ uploadStatus = "idle"
  /\ errorMessage = <<>>
  /\ parseResult = <<>>
  /\ awaiting = "none"
  /\ validation = <<>>
  /\ calls = <<>>

DispatchIdle ==
  /\ request = <<>>
  /\ results = <<>>
  /\ sendErrors = <<>>
  /\ fetches = <<>>
  /\ response = <<>>

BatchIdle ==
  /\ requests = <<>>
  /\ sends = <<>>
  /\ settleLog = <<>>
  /\ returned = <<>>

SendIdle ==
  /\ sending = FALSE
  /\ batchResult = <<>>
  /\ sendError = <<>>
  /\ invoking = <<>>
  /\ answered = <<>>

OtherIdle == CsvIdle /\ DispatchIdle /\ BatchIdle /\ stats = <<>> /\ SendIdle

\* One call of parseCSV on a decoded file of nRows rows.
Init ==
  /\ pc = "parsing"
  /\ nRows \in 0 .. MaxRows
  /\ rows = <<>>
  /\ agencyMap = <<>>
  /\ errors = <<>>
  /\ totalMembers = 0
  /\ objProps = [k \in InheritedKeys |->
                   [agency_email |-> Undefined, needs_lookup |-> "undefined"]]
  /\ resolved = <<>>
  /\ UploadIdle
  /\ OtherIdle

\* One mounted upload component of the notification-only variant.
InitUpload ==
  /\ pc = "upload"
  /\ ParseIdle
  /\ UploadIdle
  /\ OtherIdle

\* One iteration of the forEach over results.data.  The content of the row is
\* chosen when the loop reaches it (the loop never looks ahead).
NextRow ==
  /\ pc = "parsing"
  /\ ~LoopDone(Len(rows), nRows)
  /\ \E row \in Rows :
       LET st == ProcessRow(LoopState, row, Len(rows))
       IN  /\ rows' = Append(rows, row)
           /\ agencyMap' = st.agencyMap
           /\ errors' = st.errors
           /\ totalMembers' = st.totalMembers
           /\ objProps' = st.objProps
  /\ UNCHANGED <<pc, nRows, resolved, uploadVars, otherVars, statVars, sendVars>>

\* After the loop: the decoder's errors are appended and the promise resolves.
Finish ==
  /\ pc = "parsing"
  /\ LoopDone(Len(rows), nRows)
  /\ \E papaErrors \in PapaErrorLists(nRows) :
       /\ errors' = PushPapaErrors(errors, papaErrors)
       /\ resolved' = << [data |-> agencyMap,
                          errors |-> errors',
                          totalMembers |-> totalMembers,
                          totalAgencies |-> Cardinality(DOMAIN agencyMap)] >>
  /\ pc' = "done"
  /\ UNCHANGED <<nRows, rows, agencyMap, totalMembers, objProps, uploadVars, otherVars,
               statVars, sendVars>>

\* The error callback: the file could not be read; complete() never runs.
ParseFailed ==
  /\ pc = "parsing"
  /\ rows = <<>>
  /\ pc' = "rejected"
  /\ UNCHANGED <<parseVars, uploadVars, otherVars, statVars, sendVars>>

\* ----------------------------------------------------------- statistics

\* a + b on numbers; undefined converts to NaN.
Plus(a, b) ==
  IF IsNaN(a) \/ IsNaN(b) THEN NaN
  ELSE IF a.t = "inf" /\ b.t = "inf" THEN (IF a.n = b.n THEN a ELSE NaN)
  ELSE IF a.t = "inf" THEN a
  ELSE IF b.t = "inf" THEN b
  ELSE Fin(a.n + b.n)

RECURSIVE GCD(_, _)
GCD(a, b) == IF b = 0 THEN a ELSE GCD(b, a % b)

\* A quotient kept exact, as the fraction n / d in lowest terms of units of
\* 10^-FracDigits.
Ratio(n, d) == [t |-> "fin", n |-> n \div GCD(n, d), d |-> d \div GCD(n, d)]

\* total / count for a count > 0; an infinite or NaN total stays what it is.
Quotient(total, count) ==
  IF total.t = "fin" THEN Ratio(total.n, count)
  ELSE [t |-> total.t, n |-> total.n, d |-> 1]

\* Object.values(parseResult): the groups, one per own key.
RECURSIVE ValuesOver(_, _)
ValuesOver(map, keys) ==
  IF keys = {} THEN <<>>
  ELSE LET k == CHOOSE x \in keys : TRUE
       IN  <<map[k]>> \o ValuesOver(map, keys \ {k})

ObjectValues(map) == ValuesOver(map, DOMAIN map)

\* Object.values(parseResult).filter(agency => agency.needs_lookup)
\*                           .map(agency => agency.agency_name)
GetAgenciesNeedingLookup(parseResult_) ==
  LET needing == SelectSeq(ObjectValues(parseResult_), LAMBDA agency : agency.needs_lookup)
  IN  [i \in 1 .. Len(needing) |-> needing[i].agency_name]

StatsZero == [totalAmount |-> Fin(0), totalDaysLate |-> Fin(0), membersWithDaysLate |-> 0]

\* Mutant: a member without days_late counts as a member with 0 days.
StatsOfMember_CountsAll(acc, member) ==
  [totalAmount |-> Plus(acc.totalAmount, member.amount_due),
   totalDaysLate |-> IF member.days_late # UndefNum
                     THEN Plus(acc.totalDaysLate, member.days_late)
                     ELSE acc.totalDaysLate,
   membersWithDaysLate |-> acc.membersWithDaysLate + 1]

\* The body of the inner forEach.
StatsOfMember(acc, member) ==
  IF member.days_late # UndefNum
  THEN [totalAmount |-> Plus(acc.totalAmount, member.amount_due),
        totalDaysLate |-> Plus(acc.totalDaysLate, member.days_late),
        membersWithDaysLate |-> acc.membersWithDaysLate + 1]
  ELSE [acc EXCEPT !.totalAmount = Plus(acc.totalAmount, member.amount_due)]

\* agency.members.forEach(...)
RECURSIVE StatsOfMembers(_, _)
StatsOfMembers(acc, members_) ==
  IF members_ = <<>> THEN acc
  ELSE StatsOfMembers(StatsOfMember(acc, Head(members_)), Tail(members_))

\* Mutant: only the first group is visited.
StatsOfGroups_FirstOnly(acc, groups) ==
  IF groups = <<>> THEN acc ELSE StatsOfMembers(acc, Head(groups).members)

\* Object.values(parseResult).forEach(...)
RECURSIVE StatsOfGroups(_, _)
StatsOfGroups(acc, groups) ==
  IF groups = <<>> THEN acc
  ELSE StatsOfGroups(StatsOfMembers(acc, Head(groups).members), Tail(groups))

\* Mutant: the average divides without testing the count; 0 / 0 is NaN.
AverageDaysLate_Unguarded(acc) ==
  IF acc.membersWithDaysLate > 0
  THEN Quotient(acc.totalDaysLate, acc.membersWithDaysLate)
  ELSE [t |-> "nan", n |-> 0, d |-> 1]

\* membersWithDaysLate > 0 ? totalDaysLate / membersWithDaysLate : 0
AverageDaysLate(acc) ==
  IF acc.membersWithDaysLate > 0
  THEN Quotient(acc.totalDaysLate, acc.membersWithDaysLate)
  ELSE Ratio(0, 1)

CalculateStatistics(parseResult_) ==
  LET acc == StatsOfGroups(StatsZero, ObjectValues(parseResult_))
  IN  [totalAmount |-> acc.totalAmount,
       averageDaysLate |-> AverageDaysLate(acc),
       agenciesNeedingLookup |-> Len(GetAgenciesNeedingLookup(parseResult_))]

\* Dashboard.handleUploadComplete: calculateStatistics(result.data) on what
\* parseCSV resolved with.
Statistics ==
  /\ pc = "done"
  /\ stats = <<>>
  /\ stats' = <<CalculateStatistics(resolved[1].data)>>
  /\ UNCHANGED <<pc, parseVars, uploadVars, otherVars, sendVars>>

\* ------------------------------------------ notification-only component

\* The run is the life of a mounted component: its upload half alone
\* ("upload"), or with its send and clear handlers ("send").
Mounted == pc \in {"upload", "send"}

\* onDrop up to its await: the state is reset, then the extension picks the
\* decoder, or the throw for an unsupported one lands in the catch clause.
OnDrop ==
  /\ Mounted
  /\ ~sending
  /\ Len(pending) < MaxPending
  /\ \E name \in FileNames :
       /\ fileName' = name
       /\ members' = <<>>
       /\ missingCols' = <<>>
       /\ skippedRows' = 0
       /\ IF DecoderFor(ExtensionOf(name)) = "none"
          THEN /\ parseError' = <<ErrUnsupported>>
               /\ pending' = pending
          ELSE /\ parseError' = <<>>
               /\ pending' = Append(pending,
                                    [name |-> name,
                                     decoder |-> DecoderFor(ExtensionOf(name))])
  /\ batchResult' = <<>>
  /\ sendError' = <<>>
  /\ UNCHANGED <<pc, parseVars, otherVars, statVars, sending, invoking, answered>>

WithoutAt(q, i) == SubSeq(q, 1, i - 1) \o SubSeq(q, i + 1, Len(q))

\* What onDrop does with the rows its decoder resolved with, from the length
\* test to the end of the try block: thrown is << the error it throws >> or
\* <<>>, missing what it passes to setMissingCols before throwing, mapped and
\* skipped what it passes to setMembers and setSkippedRows.
AfterDecode(rawRows) ==
  IF rawRows = <<>>
  THEN [thrown |-> <<ErrNoRows>>, missing |-> <<>>, mapped |-> <<>>, skipped |-> 0]
  ELSE IF MissingColumns(HeadersOf(rawRows[1])) # <<>>
  THEN [thrown |-> <<ErrMissingColumns(MissingColumns(HeadersOf(rawRows[1])))>>,
        missing |-> MissingColumns(HeadersOf(rawRows[1])),
        mapped |-> <<>>, skipped |-> 0]
  ELSE IF MapRows(rawRows).mapped = <<>>
  THEN [thrown |-> <<ErrNoValidRows>>, missing |-> <<>>, mapped |-> <<>>,
        skipped |-> 0]
  ELSE [thrown |-> <<>>, missing |-> <<>>, mapped |-> MapRows(rawRows).mapped,
        skipped |-> MapRows(rawRows).skipped]

\* The outcomes of the files a decoder can resolve with.
DecodeOutcomes == { AfterDecode(rawRows) : rawRows \in RawFiles }

\* The same for the files dropped in a run that goes on to send.
SendDecodeOutcomes == { AfterDecode(rawRows) : rawRows \in SendRawFiles }

DecodeOutcomesIn(run) == IF run = "send" THEN SendDecodeOutcomes ELSE DecodeOutcomes

\* onDrop after its await, the decoder having resolved with some file's rows.
DecodeResolved ==
  /\ Mounted
  /\ \E i \in 1 .. Len(pending), o \in DecodeOutcomesIn(pc) :
       /\ pending' = WithoutAt(pending, i)
       /\ IF o.thrown # <<>>
          THEN /\ parseError' = o.thrown
               /\ missingCols' = IF o.missing # <<>> THEN o.missing ELSE missingCols
               /\ UNCHANGED <<members, skippedRows>>
          ELSE /\ members' = o.mapped
               /\ skippedRows' = o.skipped
               /\ UNCHANGED <<parseError, missingCols>>
  /\ UNCHANGED <<pc, parseVars, fileName, otherVars, statVars, sendVars>>

\* onDrop after its await, the decoder having rejected.
DecodeRejected ==
  /\ Mounted
  /\ \E i \in 1 .. Len(pending) :
       /\ pending' = WithoutAt(pending, i)
       /\ parseError' = <<ErrDecode>>
  /\ UNCHANGED <<pc, parseVars, fileName, members, missingCols, skippedRows, otherVars,
               statVars, sendVars>>

\* JSON.stringify writes null for NaN and the infinities.
JNull == [t |-> "null", s |-> <<>>, n |-> 0]

\* A number as the dispatcher reads it from the body, in units of
\* 10^-FracDigits.
NumberOnWire(x) == IF x.t = "fin" THEN JNumber(x.n) ELSE JNull

\* A ParsedMember as the dispatcher reads it from the body of the invocation.
MemberOnWire(m) ==
  Member(JString(m.name), NumberOnWire(m.delinquent_days), JString(m.agency_email),
         JUndefined)

\* body: { reply_to: REPLY_TO, member_list: members }
ListOnWire(members_) == [i \in 1 .. Len(members_) |-> MemberOnWire(members_[i])]

\* ------------------------------------------ full-schema upload component

requiredHeaders == <<T_MemberName, T_Amount, T_Agency>>

\* foundHeaders.includes(header)
Includes(list, x) == \E i \in 1 .. Len(list) : list[i] = x

\* results.meta.fields under transformHeader: header => header.trim()
FoundHeaders(headerLine) == [i \in 1 .. Len(headerLine) |-> Trim(headerLine[i])]

\* Mutant: the headers are compared as the file has them, untrimmed.
ValidateCSVHeaders_Untrimmed(headerLine) ==
  LET missingHeaders ==
        SelectSeq(requiredHeaders, LAMBDA header : ~Includes(headerLine, header))
  IN  [valid |-> Len(missingHeaders) = 0,
       missingHeaders |-> missingHeaders,
       foundHeaders |-> FoundHeaders(headerLine)]

\* What validateCSVHeaders resolves with for a file with this header line.
ValidateCSVHeaders(headerLine) ==
  LET missingHeaders ==
        SelectSeq(requiredHeaders,
                  LAMBDA header : ~Includes(FoundHeaders(headerLine), header))
  IN  [valid |-> Len(missingHeaders) = 0,
       missingHeaders |-> missingHeaders,
       foundHeaders |-> FoundHeaders(headerLine)]

\* new Error(`Missing required columns: ${validation.missingHeaders.join(', ')}`)
CsvErrMissing(missingHeaders) ==
  [kind |-> "Missing required columns: ", cols |-> missingHeaders]

\* The rejection of validateCSVHeaders.
CsvErrHeaders == [kind |-> "Header validation failed: ", cols |-> <<>>]

\* The rejection of parseCSV.
CsvErrParse == [kind |-> "CSV parsing failed: ", cols |-> <<>>]

\* What parseCSV resolves with, as far as the component looks at it:
\* result.errors.length.
CsvParseResults == { [errors |-> n] : n \in 0 .. 1 }

\* onDrop up to its first await.  The dropzone is disabled while uploading.
CsvOnDrop ==
  /\ pc = "csvUpload"
  /\ ~uploading
  /\ \E headerLine \in HeaderLines : uploadedFile' = <<headerLine>>
  /\ uploading' = TRUE
  /\ uploadStatus' = "idle"
  /\ errorMessage' = <<>>
  /\ awaiting' = "validateCSVHeaders"
  /\ validation' = <<>>
  /\ calls' = <<>>
  /\ UNCHANGED <<pc, parseVars, uploadVars, statVars, sendVars, batchVars, parseResult, dispatchVars>>

\* Mutant: the catch clause sets the state and does not call onUploadError.
CsvCatch_Silent(error) ==
  /\ uploadStatus' = "error"
  /\ errorMessage' = <<error>>
  /\ calls' = calls
  /\ uploading' = FALSE
  /\ awaiting' = "none"

\* The catch clause followed by the finally clause.
CsvCatch(error) ==
  /\ uploadStatus' = "error"
  /\ errorMessage' = <<error>>
  /\ calls' = Append(calls, "onUploadError")
  /\ uploading' = FALSE
  /\ awaiting' = "none"

\* validateCSVHeaders resolved: the throw for an invalid header line lands in
\* the catch clause, otherwise parseCSV is called and awaited.
CsvValidated ==
  /\ pc = "csvUpload"
  /\ awaiting = "validateCSVHeaders"
  /\ validation' = <<ValidateCSVHeaders(uploadedFile[1])>>
  /\ IF ~validation'[1].valid
     THEN /\ CsvCatch(CsvErrMissing(validation'[1].missingHeaders))
          /\ UNCHANGED parseResult
     ELSE /\ calls' = Append(calls, "parseCSV")
          /\ awaiting' = "parseCSV"
          /\ UNCHANGED <<uploading, uploadStatus, errorMessage, parseResult>>
  /\ UNCHANGED <<pc, parseVars, uploadVars, statVars, sendVars, batchVars, uploadedFile, dispatchVars>>

\* validateCSVHeaders rejected.
CsvValidationRejected ==
  /\ pc = "csvUpload"
  /\ awaiting = "validateCSVHeaders"
  /\ CsvCatch(CsvErrHeaders)
  /\ UNCHANGED <<pc, parseVars, uploadVars, statVars, sendVars, batchVars, uploadedFile, parseResult, validation, dispatchVars>>

\* parseCSV resolved.
CsvParsed ==
  /\ pc = "csvUpload"
  /\ awaiting = "parseCSV"
  /\ \E result \in CsvParseResults : parseResult' = <<result>>
  /\ uploadStatus' = "success"
  /\ calls' = Append(calls, "onUploadComplete")
  /\ uploading' = FALSE
  /\ awaiting' = "none"
  /\ UNCHANGED <<pc, parseVars, uploadVars, statVars, sendVars, batchVars, uploadedFile, errorMessage, validation, dispatchVars>>

\* parseCSV rejected.
CsvParseRejected ==
  /\ pc = "csvUpload"
  /\ awaiting = "parseCSV"
  /\ CsvCatch(CsvErrParse)
  /\ UNCHANGED <<pc, parseVars, uploadVars, statVars, sendVars, batchVars, uploadedFile, parseResult, validation, dispatchVars>>

\* handleClear, offered once a file was uploaded with success.
CsvHandleClear ==
  /\ pc = "csvUpload"
  /\ uploadedFile # <<>>
  /\ uploadStatus = "success"
  /\ uploadedFile' = <<>>
  /\ uploadStatus' = "idle"
  /\ errorMessage' = <<>>
  /\ parseResult' = <<>>
  /\ UNCHANGED <<pc, parseVars, uploadVars, statVars, sendVars, batchVars, uploading, awaiting, validation, calls, dispatchVars>>

InitCsvUpload ==
  /\ pc = "csvUpload"
  /\ ParseIdle
  /\ UploadIdle
  /\ OtherIdle

NextCsvUpload ==
  \/ CsvOnDrop
  \/ CsvValidated
  \/ CsvValidationRejected
  \/ CsvParsed
  \/ CsvParseRejected
  \/ CsvHandleClear

\* The upload component of the full-schema variant.
SpecCsvUpload == InitCsvUpload /\ [][NextCsvUpload]_vars

\* The same, with the promises onDrop awaits settling: PapaParse calls
\* complete or error for the file it was given.
SpecCsvUploadFair ==
  /\ SpecCsvUpload
  /\ WF_vars(CsvValidated \/ CsvValidationRejected)
  /\ WF_vars(CsvParsed \/ CsvParseRejected)

\* ------------------------------------------------- per-member dispatcher

\* /^[^\s@]+@[^\s@]+\.[^\s@]+$/.test(s): a run of characters that are neither
\* white space nor "@", then "@", such a run, ".", and such a run to the end.
AddressRun(s) ==
  /\ s # <<>>
  /\ \A i \in 1 .. Len(s) : s[i] \notin WhiteSpace \cup {"@"}

EmailRegexTest(s) ==
  \E i \in 1 .. Len(s), j \in 1 .. Len(s) :
    /\ i < j
    /\ s[i] = "@"
    /\ s[j] = "."
    /\ AddressRun(SubSeq(s, 1, i - 1))
    /\ AddressRun(SubSeq(s, i + 1, j - 1))
    /\ AddressRun(SubSeq(s, j + 1, Len(s)))

\* !v
Falsy(v) ==
  \/ v.t = "undefined"
  \/ v.t = "string" /\ v.s = <<>>
  \/ v.t = "number" /\ v.n = 0

\* emailRegex.test(v): a number's text holds no "@", undefined's neither.
RegexAccepts(v) == v.t = "string" /\ EmailRegexTest(v.s)

ErrMemberList == "Missing or invalid field: member_list (must be non-empty array)"

ErrReplyToMissing == "Missing required field: reply_to"

ErrReplyToFormat == "Invalid email format: reply_to"

ErrName == "Each member must have a valid name field"

ErrDelinquentDays == "Each member must have a valid delinquent_days (non-negative number)"

ErrAgencyEmail == "Each member must have a valid agency_email"

\* Mutant: the address is tested before the name and the lateness.
MemberError_AddressFirst(member) ==
  IF Falsy(member.agency_email) \/ ~RegexAccepts(member.agency_email)
  THEN <<ErrAgencyEmail>>
  ELSE IF Falsy(member.name) \/ member.name.t # "string" THEN <<ErrName>>
  ELSE IF member.delinquent_days.t # "number" \/ member.delinquent_days.n < 0
  THEN <<ErrDelinquentDays>>
  ELSE <<>>

\* The three tests of the validation loop on one member: << the message of
\* the first that fails >>, or <<>>.
MemberError(member) ==
  IF Falsy(member.name) \/ member.name.t # "string" THEN <<ErrName>>
  ELSE IF member.delinquent_days.t # "number" \/ member.delinquent_days.n < 0
  THEN <<ErrDelinquentDays>>
  ELSE IF Falsy(member.agency_email) \/ ~RegexAccepts(member.agency_email)
  THEN <<ErrAgencyEmail>>
  ELSE <<>>

\* for (const member of member_list): the loop returns at the first member
\* with a failing test.
RECURSIVE MemberListError(_)
MemberListError(items) ==
  IF items = <<>> THEN <<>>
  ELSE IF MemberError(Head(items)) # <<>> THEN MemberError(Head(items))
  ELSE MemberListError(Tail(items))

\* Mutant: only the first member of the list is validated.
ValidationError_FirstOnly(req) ==
  IF ~req.member_list.isArray \/ Len(req.member_list.items) = 0
  THEN <<ErrMemberList>>
  ELSE IF Falsy(req.reply_to) THEN <<ErrReplyToMissing>>
  ELSE IF ~RegexAccepts(req.reply_to) THEN <<ErrReplyToFormat>>
  ELSE MemberError(Head(req.member_list.items))

\* Pre-send validation: << the error of the 400 response >>, or <<>>.
ValidationError(req) ==
  IF ~req.member_list.isArray \/ Len(req.member_list.items) = 0
  THEN <<ErrMemberList>>
  ELSE IF Falsy(req.reply_to) THEN <<ErrReplyToMissing>>
  ELSE IF ~RegexAccepts(req.reply_to) THEN <<ErrReplyToFormat>>
  ELSE MemberListError(req.member_list.items)

\* The 400 responses, and the 500 response of the outer catch clause.
Rejection(status, error) ==
  [status |-> status, error |-> error, success |-> FALSE, sent |-> <<>>,
   failed |-> <<>>]

\* Mutant: success reports that something was sent.
Report_AnySent(sent, failed, n) ==
  [status |-> IF Len(failed) = n THEN 500 ELSE 200, error |-> "",
   success |-> Len(sent) > 0, sent |-> sent, failed |-> failed]

\* The combined report.
Report(sent, failed, n) ==
  [status |-> IF Len(failed) = n THEN 500 ELSE 200, error |-> "",
   success |-> Len(failed) = 0, sent |-> sent, failed |-> failed]

\* results.push({ member, recipient, status: 'sent' })
SentEntry(member) ==
  [member |-> member.name, recipient |-> member.agency_email, status |-> "sent"]

\* errors.push({ member, recipient, error })
FailedEntry(member, outcome) ==
  [member |-> member.name, recipient |-> member.agency_email, error |-> outcome]

\* The invocation has not read its request yet.
Entered == request = <<>> /\ response = <<>>

\* The invocation awaits a transport call.
Serving == request # <<>> /\ response = <<>>

\* The CORS preflight of either handler: an OPTIONS request is answered 'ok'.
Preflight ==
  /\ pc \in {"dispatch", "agencyDispatch"}
  /\ Entered
  /\ request' = <<>>
  /\ results' = <<>>
  /\ sendErrors' = <<>>
  /\ fetches' = <<>>
  /\ response' = << [status |-> 200, error |-> "", success |-> FALSE,
                      sent |-> <<>>, failed |-> <<>>] >>
  /\ UNCHANGED <<pc, parseVars, uploadVars, statVars, sendVars, batchVars, csvVars>>

\* The handler from its entry to its first await of fetch, or to the return
\* of a rejection.
Serve ==
  /\ pc = "dispatch"
  /\ Entered
  /\ \E req \in EmailRequests :
       /\ request' = <<req>>
       /\ results' = <<>>
       /\ sendErrors' = <<>>
       /\ IF ~req.apiKey
          THEN /\ response' = <<Rejection(500, "Internal server error")>>
               /\ fetches' = <<>>
          ELSE IF ValidationError(req) # <<>>
          THEN /\ response' = <<Rejection(400, ValidationError(req)[1])>>
               /\ fetches' = <<>>
          ELSE /\ response' = <<>>
               /\ fetches' = <<1>>
  /\ UNCHANGED <<pc, parseVars, uploadVars, statVars, sendVars, batchVars, csvVars>>

\* Mutant: the loop is left at the first failed send.
AfterTransport_FailFast(i, n, outcome, sent, failed) ==
  IF i < n /\ outcome = "ok"
  THEN [fetches |-> Append(fetches, i + 1), response |-> <<>>]
  ELSE [fetches |-> fetches, response |-> <<Report(sent, failed, n)>>]

\* After the outcome of target i of n is recorded: the next iteration calls
\* fetch, or the loop is over and the report is returned.
AfterTransport(i, n, outcome, sent, failed) ==
  IF i < n
  THEN [fetches |-> Append(fetches, i + 1), response |-> <<>>]
  ELSE [fetches |-> fetches, response |-> <<Report(sent, failed, n)>>]

\* The awaited transport call of the current target settles.
TransportSettled ==
  /\ pc = "dispatch"
  /\ Serving
  /\ \E outcome \in TransportOutcomes :
       LET items  == request[1].member_list.items
           i      == Len(fetches)
       IN  /\ results' = IF outcome = "ok" THEN Append(results, SentEntry(items[i]))
                         ELSE results
           /\ sendErrors' = IF outcome = "ok" THEN sendErrors
                            ELSE Append(sendErrors, FailedEntry(items[i], outcome))
           /\ fetches' = AfterTransport(i, Len(items), outcome, results', sendErrors').fetches
           /\ response' = AfterTransport(i, Len(items), outcome, results', sendErrors').response
  /\ UNCHANGED <<pc, parseVars, uploadVars, statVars, sendVars, batchVars, csvVars, request>>

InitDispatch ==
  /\ pc = "dispatch"
  /\ ParseIdle
  /\ UploadIdle
  /\ OtherIdle

NextDispatch == Preflight \/ Serve \/ TransportSettled

\* One invocation of the per-member dispatcher's handler.
SpecDispatch == InitDispatch /\ [][NextDispatch]_vars

\* ------------------------------------------------- per-agency dispatcher

ErrAgentEmailMissing == "Missing required field: agent_email"

ErrAgentEmailFormat == "Invalid email format: agent_email"

ErrAmountDue == "Each member must have a valid amount_due (non-negative number)"

\* The two tests of the validation loop on one member.
AgencyMemberError(member) ==
  IF Falsy(member.name) \/ member.name.t # "string" THEN <<ErrName>>
  ELSE IF member.amount_due.t # "number" \/ member.amount_due.n < 0
  THEN <<ErrAmountDue>>
  ELSE <<>>

RECURSIVE AgencyMemberListError(_)
AgencyMemberListError(items) ==
  IF items = <<>> THEN <<>>
  ELSE IF AgencyMemberError(Head(items)) # <<>> THEN AgencyMemberError(Head(items))
  ELSE AgencyMemberListError(Tail(items))

\* Mutant: only the first member of the list is validated.
AgencyValidationError_FirstOnly(req) ==
  IF Falsy(req.agent_email) THEN <<ErrAgentEmailMissing>>
  ELSE IF ~req.member_list.isArray \/ Len(req.member_list.items) = 0
  THEN <<ErrMemberList>>
  ELSE IF Falsy(req.reply_to) THEN <<ErrReplyToMissing>>
  ELSE IF ~RegexAccepts(req.agent_email) THEN <<ErrAgentEmailFormat>>
  ELSE IF ~RegexAccepts(req.reply_to) THEN <<ErrReplyToFormat>>
  ELSE AgencyMemberError(Head(req.member_list.items))

\* Pre-send validation of the per-agency handler.
AgencyValidationError(req) ==
  IF Falsy(req.agent_email) THEN <<ErrAgentEmailMissing>>
  ELSE IF ~req.member_list.isArray \/ Len(req.member_list.items) = 0
  THEN <<ErrMemberList>>
  ELSE IF Falsy(req.reply_to) THEN <<ErrReplyToMissing>>
  ELSE IF ~RegexAccepts(req.agent_email) THEN <<ErrAgentEmailFormat>>
  ELSE IF ~RegexAccepts(req.reply_to) THEN <<ErrReplyToFormat>>
  ELSE AgencyMemberListError(req.member_list.items)

\* The status of a response of the transport that is not ok.
NotOkStatus == 422

\* member_list.reduce((sum, m) => sum + m.amount_due, 0)
RECURSIVE SumAmountDue(_)
SumAmountDue(items) ==
  IF items = <<>> THEN 0
  ELSE SumAmountDue(SubSeq(items, 1, Len(items) - 1)) + items[Len(items)].amount_due.n

\* The message handed to the transport: its recipient, and of the HTML body
\* of generateEmailHTML the table rows, one per member, and the totals.
AgencyMail(req) ==
  [to |-> <<req.agent_email>>,
   rows |-> [i \in 1 .. Len(req.member_list.items) |-> req.member_list.items[i].name],
   memberCount |-> Len(req.member_list.items),
   totalAmount |-> SumAmountDue(req.member_list.items)]

\* The success response.
AgencySuccess(req) ==
  [status |-> 200, error |-> "", success |-> TRUE, sent |-> <<>>, failed |-> <<>>,
   recipient |-> req.agent_email,
   member_count |-> Len(req.member_list.items),
   total_amount |-> SumAmountDue(req.member_list.items)]

\* Mutant: the transport's answer is not tested, a response that is not ok
\* is reported as a success too.
AgencyResponse_OkUntested(req, outcome) ==
  IF outcome = "throws" THEN Rejection(500, "Internal server error")
  ELSE AgencySuccess(req)

\* What the handler returns once the transport call settled.
AgencyResponse(req, outcome) ==
  CASE outcome = "ok" -> AgencySuccess(req)
    [] outcome = "notOk" -> Rejection(NotOkStatus, "Failed to send email")
    [] outcome = "throws" -> Rejection(500, "Internal server error")

\* The handler from its entry to its await of fetch, or to the return of a
\* rejection.
AgencyServe ==
  /\ pc = "agencyDispatch"
  /\ Entered
  /\ \E req \in AgencyRequests :
       /\ request' = <<req>>
       /\ IF ~req.apiKey
          THEN /\ response' = <<Rejection(500, "Internal server error")>>
               /\ fetches' = <<>>
          ELSE IF AgencyValidationError(req) # <<>>
          THEN /\ response' = <<Rejection(400, AgencyValidationError(req)[1])>>
               /\ fetches' = <<>>
          ELSE /\ response' = <<>>
               /\ fetches' = << [mail |-> AgencyMail(req), outcome |-> "pending"] >>
  /\ UNCHANGED <<pc, parseVars, uploadVars, statVars, sendVars, batchVars, csvVars, results, sendErrors>>

\* The one transport call settles.
AgencyTransportSettled ==
  /\ pc = "agencyDispatch"
  /\ Serving
  /\ \E outcome \in TransportOutcomes :
       /\ response' = <<AgencyResponse(request[1], outcome)>>
       /\ fetches' = << [fetches[1] EXCEPT !.outcome = outcome] >>
  /\ UNCHANGED <<pc, parseVars, uploadVars, statVars, sendVars, batchVars, csvVars, request, results,
                 sendErrors>>

InitAgencyDispatch ==
  /\ pc = "agencyDispatch"
  /\ ParseIdle
  /\ UploadIdle
  /\ OtherIdle

NextAgencyDispatch == Preflight \/ AgencyServe \/ AgencyTransportSettled

\* One invocation of the per-agency dispatcher's handler.
SpecAgencyDispatch == InitAgencyDispatch /\ [][NextAgencyDispatch]_vars

InitDispatchers == InitDispatch \/ InitAgencyDispatch

NextDispatchers == NextDispatch \/ NextAgencyDispatch

\* One invocation of either dispatcher.
SpecDispatchers == InitDispatchers /\ [][NextDispatchers]_vars

\* -------------------------------------------- sendBatchEmailsToAgencies

\* A promise of sendBatchEmail: pending, fulfilled with a response, or
\* rejected with a reason.
Pending == [status |-> "pending", value |-> <<>>, message |-> ""]

\* What supabase.functions.invoke hands back for a request.
ResponseTo(req) ==
  [success |-> TRUE, message |-> "Email sent successfully",
   recipient |-> req.agent_email]

Fulfilled(req) ==
  [status |-> "fulfilled", value |-> <<ResponseTo(req)>>, message |-> ""]

RejectedWith(message) == [status |-> "rejected", value |-> <<>>, message |-> message]

\* The ways sendBatchEmail(req) settles: it resolves with the function's
\* response or throws (the development stub always throws).
Settlements(req) ==
  {Fulfilled(req)} \cup { RejectedWith(m) : m \in ReasonMessages }

\* Mutant: every error entry carries the first request of the batch.
ErrorEntry_FirstRequest(result, index, reqs) ==
  [error |-> "Failed to send email",
   message |-> IF result.message # "" THEN result.message ELSE "Unknown error",
   details |-> reqs[1]]

\* { error, message: result.reason?.message || 'Unknown error', details: requests[index] }
ErrorEntry(result, index, reqs) ==
  [error |-> "Failed to send email",
   message |-> IF result.message # "" THEN result.message ELSE "Unknown error",
   details |-> reqs[index]]

\* results.map((result, index) => ...)
MapResults(results_, reqs) ==
  [index \in 1 .. Len(results_) |->
     IF results_[index].status = "fulfilled"
     THEN results_[index].value[1]
     ELSE ErrorEntry(results_[index], index, reqs)]

\* The call: requests.map(request => sendBatchEmail(request)) starts one send
\* per request, then the function awaits Promise.allSettled.
BatchCall ==
  /\ pc = "batch"
  /\ requests = <<>>
  /\ \E reqs \in RequestArrays :
       /\ requests' = <<reqs>>
       /\ sends' = [i \in 1 .. Len(reqs) |-> Pending]
  /\ UNCHANGED <<pc, parseVars, uploadVars, statVars, sendVars, csvVars, dispatchVars, settleLog,
                 returned>>

\* One of the pending sends settles.
SendSettled ==
  /\ pc = "batch"
  /\ requests # <<>>
  /\ \E i \in 1 .. Len(sends) :
       /\ sends[i].status = "pending"
       /\ \E result \in Settlements(requests[1][i]) :
            sends' = [sends EXCEPT ![i] = result]
       /\ settleLog' = Append(settleLog, i)
  /\ UNCHANGED <<pc, parseVars, uploadVars, statVars, sendVars, csvVars, dispatchVars, requests,
                 returned>>

\* Promise.allSettled resolved (every send has settled) and the function
\* returns the mapped results.
BatchReturn ==
  /\ pc = "batch"
  /\ requests # <<>>
  /\ returned = <<>>
  /\ \A i \in 1 .. Len(sends) : sends[i].status # "pending"
  /\ returned' = <<MapResults(sends, requests[1])>>
  /\ UNCHANGED <<pc, parseVars, uploadVars, statVars, sendVars, csvVars, dispatchVars, requests,
                 sends, settleLog>>

InitBatch ==
  /\ pc = "batch"
  /\ ParseIdle
  /\ UploadIdle
  /\ OtherIdle

NextBatch == BatchCall \/ SendSettled \/ BatchReturn

\* One call of sendBatchEmailsToAgencies.
SpecBatch == InitBatch /\ [][NextBatch]_vars

Next == NextRow \/ Finish \/ ParseFailed \/ Statistics

\* parseCSV, the full-schema variant.
Spec == Init /\ [][Next]_vars

\* --------------------------- notification-only component: send and clear

REPLY_TO ==
  <<"s", "c", "o", "t", "t", ".", "t", "h", "o", "m", "a", "s", "@", "c", "a", "r",
    "y", "n", "h", "e", "a", "l", "t", "h", ".", "c", "o", "m">>

\* The entries the handler's loop pushes to results, from target i on, when
\* the transport call for target j does outcomes[j].
RECURSIVE SentFrom(_, _, _)
SentFrom(items, outcomes, i) ==
  IF i > Len(items) THEN <<>>
  ELSE (IF outcomes[i] = "ok" THEN <<SentEntry(items[i])>> ELSE <<>>)
         \o SentFrom(items, outcomes, i + 1)

\* The entries it pushes to errors.
RECURSIVE FailedFrom(_, _, _)
FailedFrom(items, outcomes, i) ==
  IF i > Len(items) THEN <<>>
  ELSE (IF outcomes[i] = "ok" THEN <<>> ELSE <<FailedEntry(items[i], outcomes[i])>>)
         \o FailedFrom(items, outcomes, i + 1)

\* The per-member handler run from its entry to its response.
HandlerResponse(req, outcomes) ==
  IF ~req.apiKey THEN Rejection(500, "Internal server error")
  ELSE IF ValidationError(req) # <<>> THEN Rejection(400, ValidationError(req)[1])
  ELSE Report(SentFrom(req.member_list.items, outcomes, 1),
              FailedFrom(req.member_list.items, outcomes, 1),
              Len(req.member_list.items))

\* What the function was reached with for a member list on the wire.
InvokedRequest(list, apiKey) ==
  [apiKey |-> apiKey, member_list |-> [isArray |-> TRUE, items |-> list],
   reply_to |-> JString(REPLY_TO)]

\* Mutant: the body is handed over whatever the status of the response.
InvokeResult_AnyStatus(resp) == [data |-> <<resp>>, error |-> <<>>]

\* { data, error } of supabase.functions.invoke for a response of the
\* function: a status outside 200..299 gives an error and no data.
InvokeResult(resp) ==
  IF resp.status >= 200 /\ resp.status <= 299
  THEN [data |-> <<resp>>, error |-> <<>>]
  ELSE [data |-> <<>>, error |-> <<"Edge Function returned a non-2xx status code">>]

\* { data, error } when the function was not reached.
InvokeUnreached ==
  [data |-> <<>>, error |-> <<"Failed to send a request to the Edge Function">>]

\* handleSendBatch up to its await.  The button is rendered while there are
\* members and no batchResult, and is disabled while sending.
HandleSendBatch ==
  /\ pc = "send"
  /\ members # <<>>
  /\ batchResult = <<>>
  /\ ~sending
  /\ sending' = TRUE
  /\ sendError' = <<>>
  /\ batchResult' = <<>>
  /\ invoking' = <<ListOnWire(members)>>
  /\ answered' = <<>>
  /\ UNCHANGED <<pc, parseVars, uploadVars, otherVars, statVars>>

\* handleSendBatch after its await: the rest of the try block or the catch
\* clause, then the finally clause.
InvokeSettled ==
  /\ pc = "send"
  /\ invoking # <<>>
  /\ \E reached \in BOOLEAN, apiKey \in BOOLEAN,
        outcomes \in [1 .. Len(invoking[1]) -> TransportOutcomes] :
       LET resp == HandlerResponse(InvokedRequest(invoking[1], apiKey), outcomes)
           r    == IF reached THEN InvokeResult(resp) ELSE InvokeUnreached
       IN  /\ answered' = IF reached THEN <<resp>> ELSE <<>>
           /\ IF r.error # <<>>
              THEN sendError' = r.error /\ UNCHANGED batchResult
              ELSE batchResult' = r.data /\ UNCHANGED sendError
  /\ sending' = FALSE
  /\ invoking' = <<>>
  /\ UNCHANGED <<pc, parseVars, uploadVars, otherVars, statVars>>

\* handleClear; its button is rendered while fileName is set.
HandleClear ==
  /\ pc = "send"
  /\ fileName # Null
  /\ fileName' = Null
  /\ members' = <<>>
  /\ parseError' = <<>>
  /\ missingCols' = <<>>
  /\ skippedRows' = 0
  /\ batchResult' = <<>>
  /\ sendError' = <<>>
  /\ UNCHANGED <<pc, parseVars, pending, otherVars, statVars, sending, invoking, answered>>

NextUpload == OnDrop \/ DecodeResolved \/ DecodeRejected

InitSend ==
  /\ pc = "send"
  /\ ParseIdle
  /\ UploadIdle
  /\ OtherIdle

NextSend ==
  \/ OnDrop
  \/ DecodeResolved
  \/ DecodeRejected
  \/ HandleSendBatch
  \/ InvokeSettled
  \/ HandleClear

\* The notification-only component with its send and clear handlers.
SpecSend == InitSend /\ [][NextSend]_vars

InitSendOrDispatch == InitSend \/ InitDispatch

NextSendOrDispatch == NextSend \/ NextDispatch

\* A run of the component, or one invocation of the per-member dispatcher.
SpecSendOrDispatch == InitSendOrDispatch /\ [][NextSendOrDispatch]_vars

\* The upload component, the notification-only variant.
SpecUpload == InitUpload /\ [][NextUpload]_vars

InitIngest == Init \/ InitUpload

NextIngest == Next \/ NextUpload

\* Either variant: a run is one call of parseCSV or the life of one upload
\* component.
SpecIngest == InitIngest /\ [][NextIngest]_vars

InitUploads == InitUpload \/ InitCsvUpload

NextUploads == NextUpload \/ NextCsvUpload

\* Either upload component: a run is the life of one of them.
SpecUploads == InitUploads /\ [][NextUploads]_vars

\* ------------------------------------------------------------- properties

\* The message kinds of the entries the row loop pushes (the decoder's
\* entries carry the decoder's error codes).
RowLevelKinds ==
  { MsgMissing.kind, MsgInvalidAmount(Empty).kind,
    MsgInvalidDaysLate(Empty).kind, MsgTypeError.kind }

IsRowError(e) == e.message.kind \in RowLevelKinds

\* Positions (1-based) of the entries of errs that the row loop pushed.
RowErrorIdx(errs) == { j \in 1 .. Len(errs) : IsRowError(errs[j]) }

\* The data row at 1-based position i of the file was rejected: an entry of
\* the error list names its line, i + 1.
Rejected(i) == \E j \in RowErrorIdx(errors) : errors[j].row = i + 1

\* The visited rows of agency k that were accepted and carry an email.
EmailRowsOf(k) ==
  { i \in 1 .. Len(rows) :
      /\ ~Rejected(i)
      /\ OptTrim(rows[i].Agency) = k
      /\ Truthy(OptTrim(rows[i].AgencyEmail)) }

Earliest(S) == CHOOSE i \in S : \A j \in S : i <= j

RECURSIVE SumMembers(_, _)
SumMembers(map, keys) ==
  IF keys = {} THEN 0
  ELSE LET k == CHOOSE x \in keys : TRUE
       IN  Len(map[k].members) + SumMembers(map, keys \ {k})

\* C1: after every prefix of the rows, each group's needs_lookup is TRUE
\* exactly when its agency_email is absent.
C1_NeedsLookupIffNoEmail ==
  \A k \in DOMAIN agencyMap :
    agencyMap[k].needs_lookup = (agencyMap[k].agency_email = Undefined)

\* C1 witness: a group created without an email got one from a later row.
C1_Witness ==
  \E k \in DOMAIN agencyMap :
    /\ Len(agencyMap[k].members) >= 2
    /\ agencyMap[k].members[1].agency_email = Undefined
    /\ agencyMap[k].agency_email # Undefined
    /\ agencyMap[k].needs_lookup = FALSE

\* C2: first-non-empty-wins.  After every prefix of the rows, a group's
\* agency_email is the trimmed email of the earliest accepted row of that
\* agency that carries one (absent when no such row exists), so no later
\* row changes it once it is set.
C2_FirstNonEmptyWins ==
  \A k \in DOMAIN agencyMap :
    IF EmailRowsOf(k) = {}
    THEN agencyMap[k].agency_email = Undefined
    ELSE agencyMap[k].agency_email = Trim(rows[Earliest(EmailRowsOf(k))].AgencyEmail)

\* C2 witness: two accepted rows of one agency carry different emails and the
\* group holds the first.
C2_Witness ==
  \E k \in DOMAIN agencyMap :
    /\ Len(agencyMap[k].members) >= 2
    /\ agencyMap[k].members[1].agency_email = T_EmailA
    /\ agencyMap[k].members[2].agency_email = T_EmailB
    /\ agencyMap[k].agency_email = T_EmailA

\* C3: in the result, a group whose accepted rows include exactly one row
\* with an agency email has that email and needs_lookup = FALSE, wherever
\* that row stands among the agency's rows.
C3_SingleEmailAnyPosition ==
  pc = "done" =>
    \A k \in DOMAIN resolved[1].data :
      Cardinality(EmailRowsOf(k)) = 1 =>
        /\ resolved[1].data[k].agency_email
             = Trim(rows[Earliest(EmailRowsOf(k))].AgencyEmail)
        /\ resolved[1].data[k].needs_lookup = FALSE

\* C3 witness: three rows of one agency, only the last carries an email.
C3_Witness ==
  /\ pc = "done"
  /\ \E k \in DOMAIN resolved[1].data :
       LET g == resolved[1].data[k]
       IN  /\ Len(g.members) = 3
           /\ g.members[1].agency_email = Undefined
           /\ g.members[2].agency_email = Undefined
           /\ g.members[3].agency_email = T_EmailA
           /\ g.agency_email = T_EmailA

\* C4: no short-circuit.  Every visited row has exactly one outcome, so while
\* the loop runs totalMembers + errors.length is the number of rows visited,
\* and the result accounts for every decoded row: totalMembers plus the
\* number of row-level errors is results.data.length.
C4_NoShortCircuit ==
  /\ pc = "parsing" => totalMembers + Len(errors) = Len(rows)
  /\ \A i \in 1 .. Len(rows) :
       Cardinality({ j \in RowErrorIdx(errors) : errors[j].row = i + 1 }) <= 1
  /\ pc = "done" =>
       /\ Len(rows) = nRows
       /\ resolved[1].totalMembers
            + Cardinality(RowErrorIdx(resolved[1].errors)) = nRows

\* C4 witness: the first row was rejected and a later row was accepted.
C4_Witness ==
  /\ pc = "done"
  /\ nRows = 3
  /\ Rejected(1)
  /\ ~Rejected(3)
  /\ resolved[1].totalMembers >= 1

\* C5: totalMembers is the sum of members.length over the groups, during the
\* loop and in the result, and totalAgencies is the number of keys of the map.
C5_Totals ==
  /\ totalMembers = SumMembers(agencyMap, DOMAIN agencyMap)
  /\ pc = "done" =>
       /\ resolved[1].totalMembers
            = SumMembers(resolved[1].data, DOMAIN resolved[1].data)
       /\ resolved[1].totalAgencies = Cardinality(DOMAIN resolved[1].data)

\* C5 witness: a result with two groups and a rejected row.
C5_Witness ==
  /\ pc = "done"
  /\ resolved[1].totalAgencies = 2
  /\ resolved[1].totalMembers = 2
  /\ \E i \in 1 .. Len(rows) : Rejected(i)

\* The text, with '$' and ',' removed, is as a whole one decimal literal that
\* denotes a finite number >= 0.
DenotesNonNegNumber(text) ==
  LET t == Trim(StripCurrency(text))
  IN  /\ t # <<>>
      /\ ScanDecimal(t).used = Len(t)
      /\ IsFinite(ScanDecimal(t).val)
      /\ ScanDecimal(t).val.n >= 0

\* The text is a non-empty run of decimal digits.
DenotesNonNegInteger(text) ==
  text # <<>> /\ \A i \in 1 .. Len(text) : text[i] \in Digits

RequiredPresent(row) ==
  /\ Truthy(OptTrim(row.MemberName))
  /\ Truthy(OptTrim(row.Amount))
  /\ Truthy(OptTrim(row.Agency))

\* A row that meets the required-field and type constraints.
WellFormedRow(row) ==
  /\ RequiredPresent(row)
  /\ DenotesNonNegNumber(OptTrim(row.Amount))
  /\ \/ ~Truthy(OptTrim(row.DaysLate))
     \/ DenotesNonNegInteger(OptTrim(row.DaysLate))

\* The record a well-formed row stands for: its trimmed texts, the numbers
\* its Amount and Days Late denote, absent for an empty optional field.
RecordOf(row) ==
  [name |-> Trim(row.MemberName),
   amount_due |-> ToNumber(StripCurrency(Trim(row.Amount))),
   agency_name |-> Trim(row.Agency),
   agency_email |-> OptField(row.AgencyEmail),
   days_late |-> IF Truthy(OptTrim(row.DaysLate)) THEN ToNumber(row.DaysLate)
                 ELSE UndefNum,
   member_id |-> OptField(row.MemberID),
   phone |-> OptField(row.Phone),
   email |-> OptField(row.Email)]

\* The group of agency k holds the record m.
Holds(k, m) ==
  /\ k \in DOMAIN agencyMap
  /\ \E j \in 1 .. Len(agencyMap[k].members) : agencyMap[k].members[j] = m

\* C6: every visited well-formed row, whatever its agency name, is accepted:
\* no error entry names it and its agency's group holds its record.
C6_WellFormedRowAccepted ==
  \A i \in 1 .. Len(rows) :
    WellFormedRow(rows[i]) =>
      /\ ~Rejected(i)
      /\ Holds(Trim(rows[i].Agency), RecordOf(rows[i]))

\* C7: a step of the loop that rejects its row (it pushes an error entry)
\* changes nothing but the error list, which grows by that one entry: the
\* group map and totalMembers are as before, and no agency_email or
\* needs_lookup was assigned on anything the map's lookup returns.
C7_RejectedRowFrame ==
  [][ (pc = "parsing" /\ pc' = "parsing" /\ Len(errors') > Len(errors)) =>
        /\ agencyMap' = agencyMap
        /\ totalMembers' = totalMembers
        /\ objProps' = objProps
        /\ Len(errors') = Len(errors) + 1
        /\ SubSeq(errors', 1, Len(errors)) = errors ]_vars

C9_AmountFiniteNonNegative ==
  /\ \A k \in DOMAIN agencyMap :
       \A j \in 1 .. Len(agencyMap[k].members) :
         /\ IsFinite(agencyMap[k].members[j].amount_due)
         /\ agencyMap[k].members[j].amount_due.n >= 0
  /\ \A i \in 1 .. Len(rows) :
       (RequiredPresent(rows[i]) /\ ~DenotesNonNegNumber(OptTrim(rows[i].Amount))) =>
         \E j \in RowErrorIdx(errors) :
           /\ errors[j].row = i + 1
           /\ errors[j].message = MsgInvalidAmount(OptTrim(rows[i].Amount))

\* A lateness value is absent or a non-negative whole number.
AbsentOrNonNegInteger(x) ==
  x = UndefNum \/ (IsFinite(x) /\ x.n >= 0 /\ x.n % Scale = 0)

\* C10: in both variants a lateness text that is not a non-negative integer
\* makes the row rejected, and every accepted record's lateness value is
\* absent or a non-negative integer: in parseCSV for the rows visited and the
\* members stored, in the upload component for the members mapRow produced.
C10_LatenessNonNegInteger ==
  /\ \A i \in 1 .. Len(rows) :
       ( /\ Truthy(OptTrim(rows[i].DaysLate))
         /\ ~DenotesNonNegInteger(OptTrim(rows[i].DaysLate)) ) => Rejected(i)
  /\ \A k \in DOMAIN agencyMap :
       \A j \in 1 .. Len(agencyMap[k].members) :
         AbsentOrNonNegInteger(agencyMap[k].members[j].days_late)
  /\ \A j \in 1 .. Len(members) :
       AbsentOrNonNegInteger(members[j].delinquent_days)

AbsentOrAddress(email) == email = Undefined \/ EmailRegexTest(email)

\* C11: every member record and every agency group that ingestion produces,
\* in parseCSV and in the upload component, has an agency_email that is
\* absent or in valid email format.
C11_AgencyEmailWellFormed ==
  /\ \A k \in DOMAIN agencyMap :
       /\ AbsentOrAddress(agencyMap[k].agency_email)
       /\ \A j \in 1 .. Len(agencyMap[k].members) :
            AbsentOrAddress(agencyMap[k].members[j].agency_email)
  /\ \A j \in 1 .. Len(members) : AbsentOrAddress(members[j].agency_email)

\* The visited rows that were accepted.
AcceptedRows == { i \in 1 .. Len(rows) : ~Rejected(i) }

\* The records of the accepted rows among rows[from .. Len(rows)] whose
\* trimmed agency value is k, in row order.
RECURSIVE RecordsOfKey(_, _)
RecordsOfKey(k, from) ==
  IF from > Len(rows) THEN <<>>
  ELSE IF from \in AcceptedRows /\ Trim(rows[from].Agency) = k
  THEN <<MemberOf(rows[from])>> \o RecordsOfKey(k, from + 1)
  ELSE RecordsOfKey(k, from + 1)

\* C12 as stated: grouping is by the Agency value as the file has it.  The
\* accepted rows form as many groups as they have distinct Agency values, and
\* two accepted rows whose records one group holds have the same Agency value.
C12_GroupsByAgencyValue ==
  /\ Cardinality(DOMAIN agencyMap)
       = Cardinality({ rows[i].Agency : i \in AcceptedRows })
  /\ \A i, j \in AcceptedRows :
       (\E k \in DOMAIN agencyMap :
          Holds(k, MemberOf(rows[i])) /\ Holds(k, MemberOf(rows[j])))
         => rows[i].Agency = rows[j].Agency

\* C12 amended: grouping is by exact, case-sensitive equality of the trimmed
\* Agency value.  The groups are the distinct trimmed values of the accepted
\* rows, and the group of a value holds, in row order, exactly the records of
\* the accepted rows with that trimmed value: values that differ in letter
\* case form distinct groups, values that differ only in surrounding white
\* space form one.
C12_GroupsByTrimmedValue ==
  /\ DOMAIN agencyMap = { Trim(rows[i].Agency) : i \in AcceptedRows }
  /\ \A k \in DOMAIN agencyMap :
       /\ agencyMap[k].agency_name = k
       /\ agencyMap[k].members = RecordsOfKey(k, 1)

\* C12 witness: three accepted rows with the values "ABC", " ABC " and
\* " abc " gave two groups, "ABC" with two members and "abc" with one.
C12_Witness ==
  /\ Len(rows) = 3
  /\ AcceptedRows = {1, 2, 3}
  /\ { rows[i].Agency : i \in 1 .. 3 } = {T_ABC, T_ABCPadded, T_abcPadded}
  /\ DOMAIN agencyMap = {T_ABC, <<"a", "b", "c">>}
  /\ Len(agencyMap[T_ABC].members) = 2
\* The required headers that are not among the trimmed headers of the line,
\* under exact comparison.
AbsentRequired(headerLine) ==
  { h \in {T_MemberName, T_Amount, T_Agency} :
      \A i \in 1 .. Len(headerLine) : Trim(headerLine[i]) # h }

\* The list holds exactly the headers of S, in the order 'Member Name',
\* 'Amount', 'Agency'.
InRequiredOrder(list, S) ==
  list = SelectSeq(<<T_MemberName, T_Amount, T_Agency>>, LAMBDA h : h \in S)

\* C13: what validateCSVHeaders resolved with for the dropped file has
\* missingHeaders equal to the required headers, in their order, that are not
\* among the file's trimmed headers under case-sensitive exact match, and
\* valid = TRUE exactly when missingHeaders is empty; the headers
\* ['Member Name', 'Agency'] give valid = FALSE and missingHeaders = ['Amount'].
C13_MissingHeaders ==
  (validation # <<>> /\ uploadedFile # <<>>) =>
    /\ InRequiredOrder(validation[1].missingHeaders, AbsentRequired(uploadedFile[1]))
    /\ validation[1].valid = (validation[1].missingHeaders = <<>>)
    /\ uploadedFile[1] = <<T_MemberName, T_Agency>> =>
         /\ validation[1].valid = FALSE
         /\ validation[1].missingHeaders = <<T_Amount>>

\* C13 witness: the file ['Member Name', ' Agency ', 'amount'] was validated;
\* its padded header counts, its lower-case one does not.
C13_Witness ==
  /\ validation # <<>>
  /\ uploadedFile = << <<T_MemberName, <<" ">> \o T_Agency \o <<" ">>,
                        <<"a", "m", "o", "u", "n", "t">> >> >>
  /\ validation[1].missingHeaders = <<T_Amount>>
  /\ validation[1].valid = FALSE
\* The invocation got past the key test and pre-send validation.
PassedValidation ==
  /\ request # <<>>
  /\ request[1].apiKey
  /\ ValidationError(request[1]) = <<>>

\* The target an entry of sent or failed, or an item of member_list, names.
TargetOf(e) == [member |-> e.member, recipient |-> e.recipient]

TargetOfItem(m) == [member |-> m.name, recipient |-> m.agency_email]

Targets == [i \in 1 .. Len(request[1].member_list.items) |->
              TargetOfItem(request[1].member_list.items[i])]

Occurrences(list, x) == Cardinality({ i \in 1 .. Len(list) : list[i] = x })

\* sub is list with some elements left out.
RECURSIVE IsSubsequence(_, _)
IsSubsequence(sub, list) ==
  IF sub = <<>> THEN TRUE
  ELSE IF list = <<>> THEN FALSE
  ELSE IF Head(sub) = Head(list) THEN IsSubsequence(Tail(sub), Tail(list))
  ELSE IsSubsequence(sub, Tail(list))

EntryTargets(entries) == [j \in 1 .. Len(entries) |-> TargetOf(entries[j])]

\* C14: for a batch that passed pre-send validation, whatever the transport
\* calls do, the attempts are made one per target in list order, an outcome
\* is recorded for each attempt before the next is made, and the report holds
\* every target exactly once across sent and failed, each list in list order:
\* sent.length + failed.length = member_list.length.
C14_OneAttemptPerTarget ==
  PassedValidation =>
    /\ fetches = [k \in 1 .. Len(fetches) |-> k]
    /\ Len(fetches) <= Len(Targets)
    /\ response = <<>> =>
         /\ Len(fetches) >= 1
         /\ Len(results) + Len(sendErrors) = Len(fetches) - 1
    /\ response # <<>> =>
         /\ Len(fetches) = Len(Targets)
         /\ response[1].sent = results
         /\ response[1].failed = sendErrors
         /\ Len(response[1].sent) + Len(response[1].failed) = Len(Targets)
         /\ \A i \in 1 .. Len(Targets) :
              Occurrences(Targets, Targets[i])
                = Occurrences(EntryTargets(response[1].sent), Targets[i])
                    + Occurrences(EntryTargets(response[1].failed), Targets[i])
         /\ IsSubsequence(EntryTargets(response[1].sent), Targets)
         /\ IsSubsequence(EntryTargets(response[1].failed), Targets)

\* C14 witness: a batch of three whose second transport call threw: the
\* report has two sent, one failed, and the third target was attempted.
C14_Witness ==
  /\ PassedValidation
  /\ response # <<>>
  /\ Len(Targets) = 3
  /\ fetches = <<1, 2, 3>>
  /\ Len(response[1].sent) = 2
  /\ Len(response[1].failed) = 1
  /\ response[1].failed[1].error = "throws"
  /\ TargetOf(response[1].failed[1]) = Targets[2]
  /\ TargetOf(response[1].sent[2]) = Targets[3]
  /\ Targets[2] # Targets[1]
  /\ Targets[2] # Targets[3]
\* The value is a non-empty string.
IsName(v) == v.t = "string" /\ v.s # <<>>

\* The value is a number >= 0.
IsNonNegNumber(v) == v.t = "number" /\ v.n >= 0

\* The value is a string in email format.
IsAddress(v) == v.t = "string" /\ EmailRegexTest(v.s)

\* A target of the per-member dispatcher with an invalid required field.
InvalidTarget(m) ==
  ~IsName(m.name) \/ ~IsNonNegNumber(m.delinquent_days) \/ ~IsAddress(m.agency_email)

\* A member of the per-agency dispatcher with an invalid required field.
InvalidAgencyMember(m) == ~IsName(m.name) \/ ~IsNonNegNumber(m.amount_due)

\* The request served fails pre-send validation: its target list is empty or
\* no list, its reply_to or a recipient address is missing or malformed, or
\* one of its items has an invalid required field.
FailsPreSend ==
  /\ request # <<>>
  /\ LET req == request[1]
     IN  \/ ~req.member_list.isArray
         \/ req.member_list.items = <<>>
         \/ ~IsAddress(req.reply_to)
         \/ /\ pc = "dispatch"
            /\ \E i \in 1 .. Len(req.member_list.items) :
                 InvalidTarget(req.member_list.items[i])
         \/ /\ pc = "agencyDispatch"
            /\ \/ ~IsAddress(req.agent_email)
               \/ \E i \in 1 .. Len(req.member_list.items) :
                    InvalidAgencyMember(req.member_list.items[i])

ItemFields ==
  IF pc = "dispatch" THEN <<"name", "delinquent_days", "agency_email">>
  ELSE <<"name", "amount_due">>

InvalidField(m, f) ==
  CASE f = "name" -> ~IsName(m.name)
    [] f = "delinquent_days" -> ~IsNonNegNumber(m.delinquent_days)
    [] f = "agency_email" -> ~IsAddress(m.agency_email)
    [] f = "amount_due" -> ~IsNonNegNumber(m.amount_due)

\* The violations of the items of the request served: << item, field >>,
\* the field given by its position in ItemFields.
Violations ==
  { v \in (1 .. Len(request[1].member_list.items)) \X (1 .. Len(ItemFields)) :
      InvalidField(request[1].member_list.items[v[1]], ItemFields[v[2]]) }

\* The field a rejection's message names, "" for a message about the request.
FieldNamedBy(error) ==
  CASE error = ErrName -> "name"
    [] error = ErrDelinquentDays -> "delinquent_days"
    [] error = ErrAgencyEmail -> "agency_email"
    [] error = ErrAmountDue -> "amount_due"
    [] OTHER -> ""

\* The items a rejection's message names: the messages are fixed texts.
ItemsNamedBy(error) == {}

\* The request was rejected by the validation loop over its items.
RejectedForItems ==
  /\ request # <<>>
  /\ response # <<>>
  /\ response[1].status = 400
  /\ FieldNamedBy(response[1].error) # ""

FirstViolation ==
  CHOOSE v \in Violations :
    \A w \in Violations : v[1] < w[1] \/ (v[1] = w[1] /\ v[2] <= w[2])

Reported == PassedValidation /\ response # <<>>

\* C17: in the per-member dispatcher's report, success is TRUE exactly when
\* failed is empty, for every combination of transport outcomes, and the
\* report holds every outcome: what the loop recorded as sent and as failed,
\* one entry per target.
C17_SuccessIffNoFailure ==
  Reported =>
    /\ response[1].success = (response[1].failed = <<>>)
    /\ response[1].sent = results
    /\ response[1].failed = sendErrors
    /\ Len(response[1].sent) + Len(response[1].failed) = Len(Targets)

\* C17 witness: of three targets only the last failed (a response that was
\* not ok): success is FALSE and the report holds the two sent and the one
\* failed outcome.
C17_Witness ==
  /\ Reported
  /\ Len(Targets) = 3
  /\ response[1].success = FALSE
  /\ Len(response[1].sent) = 2
  /\ Len(response[1].failed) = 1
  /\ response[1].failed[1].error = "notOk"
  /\ TargetOf(response[1].failed[1]) = Targets[3]
  /\ response[1].status = 200
\* Entry i of the returned array is the outcome of requests[i].
OutcomeOfRequest(i) ==
  IF sends[i].status = "fulfilled"
  THEN /\ returned[1][i] = sends[i].value[1]
       /\ returned[1][i].recipient = requests[1][i].agent_email
  ELSE /\ sends[i].status = "rejected"
       /\ returned[1][i].error = "Failed to send email"
       /\ returned[1][i].details = requests[1][i]

BatchOutcomes ==
  /\ requests # <<>> =>
       /\ Len(sends) = Len(requests[1])
       /\ Len(settleLog) = Cardinality({ i \in 1 .. Len(sends) : sends[i].status # "pending" })
  /\ returned # <<>> =>
       /\ Len(returned[1]) = Len(requests[1])
       /\ \A i \in 1 .. Len(requests[1]) : OutcomeOfRequest(i)

\* A step leaves every settled send, and every send but the one that
\* settles, as it is, and the returned array once it is returned.
SendsIndependent ==
  /\ \A j \in 1 .. Len(sends) :
       (sends[j].status # "pending" \/ (settleLog' # settleLog /\ settleLog'[Len(settleLog')] # j))
         => sends'[j] = sends[j]
  /\ returned # <<>> => returned' = returned

\* C18: sendBatchEmailsToAgencies starts one send per request and returns,
\* after all sends have settled, an array of the length of requests whose
\* entry i is the outcome of requests[i], the response of a fulfilled send or
\* an error object carrying requests[i]; a send that settles, in whatever
\* order, changes no other send and no other entry.
C18_EntryPerRequest == [](BatchOutcomes) /\ [][SendsIndependent]_vars

\* C18 witness: three requests, the sends settled in the order 3, 1, 2 and
\* the second rejected; entry 2 is the error object carrying requests[2].
C18_Witness ==
  /\ returned # <<>>
  /\ Len(requests[1]) = 3
  /\ settleLog = <<3, 1, 2>>
  /\ requests[1][2] # requests[1][1]
  /\ sends[1].status = "fulfilled"
  /\ sends[2].status = "rejected"
  /\ sends[3].status = "fulfilled"
  /\ returned[1][2].details = requests[1][2]
  /\ returned[1][2].message = "Unknown error"
  /\ returned[1][3] = ResponseTo(requests[1][3])
\* C19: ingestion of a file that decodes to zero data rows fails with a 'no
\* data rows' error instead of returning a result.  For parseCSV: a call on
\* zero rows never resolves with a result.  For the upload component: what
\* onDrop does with zero decoded rows is to throw that error and set no
\* members.
C19_ZeroRowsFail ==
  /\ (pc \in {"parsing", "done"} /\ nRows = 0) => resolved = <<>>
  /\ AfterDecode(<<>>).thrown = <<ErrNoRows>>
  /\ AfterDecode(<<>>).mapped = <<>>
\* C20: a fatal ingestion error yields an error and no partial result.  In the
\* notification-only upload component, whenever parseError is set the member
\* list is empty; in the full-schema upload component, when validateCSVHeaders
\* reported valid = FALSE for the dropped file, parseCSV was not invoked and
\* onUploadComplete was not called for that file.
C20_NoPartialResult ==
  /\ parseError # <<>> => members = <<>>
  /\ (validation # <<>> /\ ~validation[1].valid) =>
       /\ ~Includes(calls, "parseCSV")
       /\ ~Includes(calls, "onUploadComplete")
\* What follows the last '.' of the name, lower-cased, is csv, xlsx or xls.
SupportedName(name) ==
  ExtensionOf(name) \in { <<"c", "s", "v">>, <<"x", "l", "s", "x">>, <<"x", "l", "s">> }

\* A step of the notification-only component that is a drop: the two
\* continuations of onDrop each take a decode out of the pending ones, a send
\* and its continuation each switch sending, and handleClear leaves no file
\* name.
DropStep ==
  /\ pc = "upload"
  /\ Len(pending') >= Len(pending)
  /\ sending' = sending
  /\ fileName' # Null

\* C21: in the notification-only upload component a dropped file whose
\* extension, compared case-insensitively, is not csv, xlsx or xls is rejected
\* with the 'unsupported file type' error and no decoder is invoked for it: the
\* drop starts no decode, and no decode in flight is for such a file.
C21_UnsupportedRejected ==
  /\ [](\A i \in 1 .. Len(pending) : SupportedName(pending[i].name))
  /\ [][(DropStep /\ ~SupportedName(fileName')) =>
          (parseError' = <<ErrUnsupported>> /\ pending' = pending)]_vars

\* C21 witness: 'm.csv.txt' was dropped and rejected, nothing is being decoded.
C21_Witness ==
  /\ pc = "upload"
  /\ fileName = <<"m", ".", "c", "s", "v", ".", "t", "x", "t">>
  /\ parseError = <<ErrUnsupported>>
  /\ pending = <<>>
\* The members of a group map, each named by its group's key and its position.
MembersIn(map) ==
  { <<k, i>> : k \in DOMAIN map, i \in 1 .. MaxRows + 1 } \cap
  UNION { { <<k, i>> : i \in 1 .. Len(map[k].members) } : k \in DOMAIN map }

HavingDaysLate(map) ==
  { m \in MembersIn(map) : map[m[1]].members[m[2]].days_late.t # "undef" }

\* Sum of days_late over a set of members that have one, in units of
\* 10^-FracDigits.
RECURSIVE SumDaysLate(_, _)
SumDaysLate(map, S) ==
  IF S = {} THEN 0
  ELSE LET m == CHOOSE x \in S : TRUE
       IN  map[m[1]].members[m[2]].days_late.n + SumDaysLate(map, S \ {m})

\* C22: calculateStatistics returns averageDaysLate equal to the sum of
\* days_late over the members that have a days_late value divided by the
\* number of such members, and exactly 0, never NaN, when no member has a
\* days_late value, the empty group map included.
C22_AverageDaysLate ==
  stats # <<>> =>
    LET map == resolved[1].data
        having == HavingDaysLate(map)
        avg == stats[1].averageDaysLate
    IN  /\ avg.t = "fin"
        /\ avg.d > 0
        /\ having # {} =>
             avg.n * Cardinality(having) = SumDaysLate(map, having) * avg.d
        /\ having = {} => avg.n = 0

\* C22 witness: statistics of a map with two members of 30 and 7 days and a
\* member without days_late: the average is 37 / 2 = 18.5.
C22_Witness ==
  /\ stats # <<>>
  /\ Cardinality(HavingDaysLate(resolved[1].data)) = 2
  /\ Cardinality(MembersIn(resolved[1].data)) = 3
  /\ stats[1].averageDaysLate = [t |-> "fin", n |-> (37 * Scale) \div 2, d |-> 1]
\* The amount parsed from row i: parseFloat of the trimmed text without '$'
\* and ','.
AmountOfRow(i) == ParseFloat(StripCurrency(Trim(rows[i].Amount)))

\* Sum of the finite parsed amounts of a set of rows, in units of
\* 10^-FracDigits.
RECURSIVE SumAmounts(_)
SumAmounts(S) ==
  IF S = {} THEN 0
  ELSE LET i == CHOOSE x \in S : TRUE
       IN  (IF AmountOfRow(i).t = "fin" THEN AmountOfRow(i).n ELSE 0)
             + SumAmounts(S \ {i})

\* The sum of the parsed amounts of the accepted rows: infinite as soon as one
\* of them is.
AcceptedAmount ==
  IF \E i \in AcceptedRows : AmountOfRow(i).t = "inf"
  THEN Infinity(1)
  ELSE Fin(SumAmounts(AcceptedRows))

StatisticsMatchRows ==
  stats # <<>> =>
    /\ stats[1].totalAmount = AcceptedAmount
    /\ stats[1].agenciesNeedingLookup
         = Cardinality({ k \in DOMAIN resolved[1].data : resolved[1].data[k].needs_lookup })
    /\ resolved[1].data = <<>> =>
         /\ stats[1].totalAmount = Fin(0)
         /\ stats[1].averageDaysLate = [t |-> "fin", n |-> 0, d |-> 1]
         /\ stats[1].agenciesNeedingLookup = 0

StatisticsKeepMap ==
  stats' # stats => (resolved' = resolved /\ agencyMap' = agencyMap)

\* C23: calculateStatistics applied to the result of parseCSV returns
\* totalAmount equal to the sum of the parsed amounts of exactly the accepted
\* rows and agenciesNeedingLookup equal to the number of groups with
\* needs_lookup = TRUE; for an empty group map it returns 0, 0 and 0; and it
\* does not modify the group map.
C23_StatisticsOfResult == [](StatisticsMatchRows) /\ [][StatisticsKeepMap]_vars

\* C23 witness: statistics of a file with a rejected row and two accepted
\* rows of two agencies, $1,250.50 and 100, one agency needing lookup.
C23_Witness ==
  /\ stats # <<>>
  /\ Cardinality(AcceptedRows) = 2
  /\ Len(rows) = 3
  /\ Cardinality(DOMAIN resolved[1].data) = 2
  /\ stats[1].totalAmount = Fin(1350 * Scale + Scale \div 2)
  /\ stats[1].agenciesNeedingLookup = 1
\* The per-agency dispatcher got past the key test and its request is valid:
\* a non-empty list, addresses in email format, every member with a name and
\* an amount_due >= 0.
AgencyValidated ==
  /\ pc = "agencyDispatch"
  /\ request # <<>>
  /\ request[1].apiKey
  /\ ~FailsPreSend

\* Sum of amount_due over the items at the positions in S.
RECURSIVE AmountDueOver(_, _)
AmountDueOver(items, S) ==
  IF S = {} THEN 0
  ELSE LET i == CHOOSE x \in S : TRUE
       IN  items[i].amount_due.n + AmountDueOver(items, S \ {i})

\* The response reports a send: a success, or an entry or a count of sent
\* members.
ReportsSent(r) ==
  \/ r.success
  \/ r.sent # <<>>
  \/ "member_count" \in DOMAIN r

AgencyOneCall ==
  AgencyValidated =>
    LET items == request[1].member_list.items
    IN  /\ Len(fetches) = 1
        /\ fetches[1].mail.to = <<request[1].agent_email>>
        /\ fetches[1].mail.rows = [i \in 1 .. Len(items) |-> items[i].name]
        /\ response = <<>> <=> fetches[1].outcome = "pending"
        /\ (response # <<>> /\ fetches[1].outcome = "ok") =>
             /\ response[1].status = 200
             /\ response[1].success
             /\ response[1].member_count = Len(items)
             /\ response[1].total_amount = AmountDueOver(items, 1 .. Len(items))
        /\ (response # <<>> /\ fetches[1].outcome # "ok") =>
             /\ response[1].status # 200
             /\ response[1].error # ""
             /\ ~ReportsSent(response[1])

\* The answer follows the transport: once given it does not change and no
\* further call is made.
AgencyAnswerFinal ==
  (pc = "agencyDispatch" /\ response # <<>>) =>
    (response' = response /\ fetches' = fetches)

\* C24: the per-agency dispatcher makes exactly one transport call per
\* validated request, covering the whole member list, and the outcome is
\* all-or-nothing: the response either reports success with member_count =
\* member_list.length and total_amount = the sum of amount_due over all
\* members, or is an error response that reports no member as sent.
C24_OneCallPerAgency == [](AgencyOneCall) /\ [][AgencyAnswerFinal]_vars

\* C24 witness: a list of three members answered with success, 200 in total.
C24_Witness ==
  /\ AgencyValidated
  /\ response # <<>>
  /\ response[1].success
  /\ response[1].member_count = 3
  /\ response[1].total_amount = 200
  /\ Len(fetches) = 1
  /\ fetches[1].outcome = "ok"
\* C25: every record accepted by mapRow satisfies the per-member dispatcher's
\* pre-send validation for a target (a non-empty string name, delinquent_days
\* a number >= 0, agency_email matching the dispatcher's email pattern), so a
\* member list produced by a successful upload is never rejected as a whole
\* because of one of its rows.
C25_MappedRowsAreValidTargets ==
  /\ \A j \in 1 .. Len(members) : ~InvalidTarget(MemberOnWire(members[j]))
  /\ MemberListError(ListOnWire(members)) = <<>>
\* Every group of the map has a member, holds only members that carry its
\* key as agency_name, and holds the records of the accepted rows of that key
\* in the order of the rows.
GroupsWellFormed(map) ==
  \A k \in DOMAIN map :
    /\ Len(map[k].members) >= 1
    /\ \A j \in 1 .. Len(map[k].members) : map[k].members[j].agency_name = k
    /\ map[k].members = RecordsOfKey(k, 1)

\* C26: in every state of parseCSV's fold and in its result, every group in
\* the map has at least one member, every member stored in the group under
\* key k has agency_name = k, and members appear in a group in the order of
\* their rows in the file.
C26_GroupsNonEmptyOrdered ==
  /\ GroupsWellFormed(agencyMap)
  /\ resolved # <<>> => GroupsWellFormed(resolved[1].data)

\* C26 witness: a result whose group 'ABC' holds two members of different
\* amounts, from the first and the third row, the second row being rejected.
C26_Witness ==
  /\ pc = "done"
  /\ Len(rows) = 3
  /\ Rejected(2)
  /\ T_ABC \in DOMAIN resolved[1].data
  /\ Len(resolved[1].data[T_ABC].members) = 2
  /\ resolved[1].data[T_ABC].members[1] = MemberOf(rows[1])
  /\ resolved[1].data[T_ABC].members[2] = MemberOf(rows[3])
  /\ MemberOf(rows[1]) # MemberOf(rows[3])
\* The state handleClear leaves: no file name, no members, no batch result,
\* no send error.
Cleared ==
  /\ fileName = Null
  /\ members = <<>>
  /\ batchResult = <<>>
  /\ sendError = <<>>

\* C27: after handleClear runs, the component stays in the cleared state until
\* a new file is dropped (the only step that sets a file name), also when a
\* send-batch invocation was in flight at the clear and completes afterwards.
\* Stated for the steps taken while no decode is in flight.
C27_ClearedUntilDrop ==
  [][(pc = "send" /\ Cleared /\ pending = <<>> /\ fileName' = Null) => Cleared']_vars
\* The step is the continuation of onDrop for a file other than the one
\* fileName names, that is, for a file dropped before the latest one: its
\* decode leaves the pending ones.
EarlierDecodeSettles ==
  \E i \in 1 .. Len(pending) :
    /\ pending' = WithoutAt(pending, i)
    /\ pending[i].name # fileName

\* C28: members and parseError belong to the file named by fileName, the most
\* recently dropped one, whatever the order in which the decodes of two drops
\* complete: the decode of an earlier file, completing after the later file
\* was dropped, writes neither members nor parseError.
C28_LatestDropWins ==
  [][(pc = "upload" /\ EarlierDecodeSettles) =>
       (members' = members /\ parseError' = parseError)]_vars
\* The callbacks invoked for the dropped file.
CsvCallbacks == SelectSeq(calls, LAMBDA c : c \in {"onUploadComplete", "onUploadError"})

\* During an upload no callback was invoked yet; after it exactly one was,
\* onUploadComplete exactly when the drop ended in success, which takes a
\* passed header validation and a result of parseCSV.
CsvOneCallback ==
  /\ uploading => (CsvCallbacks = <<>> /\ awaiting # "none")
  /\ (~uploading /\ calls # <<>>) =>
       /\ Len(CsvCallbacks) = 1
       /\ awaiting = "none"
       /\ uploadedFile # <<>> =>
            /\ uploadStatus \in {"success", "error"}
            /\ CsvCallbacks = <<"onUploadComplete">> <=> uploadStatus = "success"
            /\ uploadStatus = "success" =>
                 /\ validation # <<>>
                 /\ validation[1].valid
                 /\ parseResult # <<>>
                 /\ calls = <<"parseCSV", "onUploadComplete">>
            /\ (validation # <<>> /\ ~validation[1].valid) =>
                 CsvCallbacks = <<"onUploadError">>

\* While uploading the dropped file stays the same: no second drop.
CsvNoSecondDrop == uploading => uploadedFile' = uploadedFile

\* C29: in the full-schema upload component every accepted drop eventually
\* ends with uploading = FALSE and uploadStatus success or error, exactly one
\* of onUploadComplete and onUploadError is invoked for it (onUploadComplete
\* exactly when header validation passed and parseCSV resolved), and while
\* uploading = TRUE no second drop is accepted.
C29_DropEnds ==
  /\ [](CsvOneCallback)
  /\ [][CsvNoSecondDrop]_vars
  /\ (uploading ~> (~uploading /\ uploadStatus \in {"success", "error"}))

\* C29 witness: a drop whose headers passed and whose parseCSV rejected ended
\* in error with onUploadError alone.
C29_Witness ==
  /\ pc = "csvUpload"
  /\ ~uploading
  /\ uploadStatus = "error"
  /\ validation # <<>>
  /\ validation[1].valid
  /\ calls = <<"parseCSV", "onUploadError">>
\* The response is the sent/failed report of a validated batch, not a
\* rejection.
IsReport(r) == r.error = ""

\* The report's status is 500 exactly when every target failed, 200 otherwise.
StatusByFailures(r) ==
  r.status = IF r.sent = <<>> /\ r.failed # <<>> THEN 500 ELSE 200

\* The dispatcher's side, on the response of its handler and on what the
\* component's invocation was answered with.
ReportStatus ==
  /\ (pc = "dispatch" /\ PassedValidation /\ response # <<>>) =>
       /\ IsReport(response[1])
       /\ StatusByFailures(response[1])
  /\ (pc = "send" /\ answered # <<>> /\ IsReport(answered[1])) =>
       StatusByFailures(answered[1])

\* The component's side: the send that was answered with a report ends with
\* batchResult set to that report.
ReportKept ==
  (pc = "send" /\ sending /\ ~sending' /\ answered' # <<>> /\ IsReport(answered'[1])) =>
    batchResult' = answered'

\* C30: for a validated per-member batch the dispatcher answers with status
\* 500 exactly when every target failed and 200 otherwise, partial failure
\* included; and in the upload component every batch for which the dispatcher
\* produced a sent/failed report ends with batchResult set to that report,
\* also when all targets failed.
C30_ReportReachesUser == [](ReportStatus) /\ [][ReportKept]_vars
====
